---- MODULE Spec2Model ----
(***************************************************************************)
(* A model of support/n64/n64.cpp: the N64 ROM loader of MiSTer.  It       *)
(* covers the byte-order normaliser, the identity resolver (knowledge-base *)
(* lookups, homebrew header, boot-chip heuristic), the tag interpreter and *)
(* the save-memory address-space manager (mounting and block I/O).         *)
(***************************************************************************)
EXTENDS Integers, Sequences, FiniteSets, TLC

(***************************************************************************)
(* Enumerations (n64.cpp:37-102).  The values ~0U, ~1U and ~2U are kept as *)
(* their two's-complement readings -1, -2 and -3.                          *)
(***************************************************************************)
MT_NONE == 0
MT_EEPROM_512 == 1
MT_EEPROM_2k == 2
MT_SRAM_32k == 3
MT_SRAM_96k == 4
MT_FLASH_128k == 5
MT_CPAK == -3
MT_TPAK == -2
MT_UNKNOWN == -1

CIC_NUS_6101 == 0
CIC_NUS_6102 == 1
CIC_NUS_7101 == 2
CIC_NUS_7102 == 3
CIC_NUS_6103 == 4
CIC_NUS_7103 == 5
CIC_NUS_6105 == 6
CIC_NUS_7105 == 7
CIC_NUS_6106 == 8
CIC_NUS_7106 == 9
CIC_NUS_8303 == 10
CIC_NUS_8401 == 11
CIC_NUS_5167 == 12
CIC_NUS_DDUS == 13
CIC_NUS_5101 == 14
CIC_UNKNOWN == -1

SYS_NTSC == 0
SYS_PAL == 1
SYS_UNKNOWN == -1

DF_BIG_ENDIAN == 0
DF_BYTE_SWAPPED == 1
DF_LITTLE_ENDIAN == 2
DF_UNKNOWN == -1

N64_PAD == 0
UNPLUGGED == 1
N64_PAD_WITH_CPAK == 2
N64_PAD_WITH_RPAK == 3
SNAC == 4
N64_PAD_WITH_TPAK == 5

AUTO_ON == 0
AUTO_OFF == 1

AR_ORIGINAL == 0
AR_FULL == 1
AR_CUSTOM_1 == 2
AR_CUSTOM_2 == 3
AR_UNKNOWN == -1

CARTID_LENGTH == 6
ROM_CHUNK == 4096
MAX_SAVE_FILES == 8

(***************************************************************************)
(* Option keys of the host configuration store (n64.cpp:16-26).            *)
(***************************************************************************)
AR_TYPE_OPT == "[48:47]"
AUTODETECT_OPT == "[64]"
CIC_TYPE_OPT == "[68:65]"
NO_EPAK_OPT == "[70]"
CPAK_OPT == "[71]"
RPAK_OPT == "[72]"
TPAK_OPT == "[73]"
RTC_OPT == "[74]"
SAVE_TYPE_OPT == "[77:75]"
SYS_TYPE_OPT == "[80:79]"
RESET_OPT == "[0]"
CONTROLLER_OPTS == <<"[51:49]", "[54:52]", "[57:55]", "[60:58]">>

Opts ==
  {AR_TYPE_OPT, AUTODETECT_OPT, CIC_TYPE_OPT, NO_EPAK_OPT, CPAK_OPT, RPAK_OPT,
   TPAK_OPT, RTC_OPT, SAVE_TYPE_OPT, SYS_TYPE_OPT, RESET_OPT}
  \cup {CONTROLLER_OPTS[i] : i \in 1..4}

\* Number of bits of an option: the width of its bit range.
OptWidth(opt) ==
  CASE opt \in {AR_TYPE_OPT, SYS_TYPE_OPT} -> 2
    [] opt = CIC_TYPE_OPT -> 4
    [] opt = SAVE_TYPE_OPT -> 3
    [] opt \in {CONTROLLER_OPTS[i] : i \in 1..4} -> 3
    [] OTHER -> 1

\* user_io_status_get / user_io_status_set on a status word st.
user_io_status_get(st, opt) == st[opt]

user_io_status_set(st, opt, v) == [st EXCEPT ![opt] = v % (2 ^ OptWidth(opt))]

BoolToInt(b) == IF b THEN 1 ELSE 0

(***************************************************************************)
(* get_save_size (n64.cpp:119-130)                                         *)
(***************************************************************************)
get_save_size(v) ==
  CASE v = MT_EEPROM_512 -> 512
    [] v = MT_EEPROM_2k -> 2048
    [] v = MT_SRAM_32k -> 32768
    [] v = MT_SRAM_96k -> 98304
    [] v = MT_FLASH_128k -> 131072
    [] v \in {MT_CPAK, MT_TPAK} -> 32768
    [] OTHER -> 0

IsPak(type) == type = MT_CPAK \/ type = MT_TPAK

\* get_cart_save_type / set_cart_save_type (n64.cpp:238-246)
get_cart_save_type(st) ==
  LET v == user_io_status_get(st, SAVE_TYPE_OPT)
  IN  IF get_save_size(v) # 0 THEN v ELSE MT_NONE

set_cart_save_type(st, v) ==
  user_io_status_set(st, SAVE_TYPE_OPT, IF get_save_size(v) # 0 THEN v ELSE MT_NONE)

\* get_save_file_offset without the save-type region: every slot a pak.
get_save_file_offset_PaksOnly(st, idx) == get_save_size(MT_CPAK) * idx

\* get_save_file_offset (n64.cpp:248-265): idx is an unsigned char.
get_save_file_offset(st, idx) ==
  LET save_type == get_cart_save_type(st)
      hasSave == idx # 0 /\ save_type # MT_NONE
      off1 == IF hasSave THEN get_save_size(save_type) ELSE 0
      idx1 == IF hasSave THEN idx - 1 ELSE idx
      hasTpak == idx1 # 0 /\ user_io_status_get(st, TPAK_OPT) # 0
      off2 == IF hasTpak THEN off1 + get_save_size(MT_TPAK) ELSE off1
      idx2 == IF hasTpak THEN idx1 - 1 ELSE idx1
  IN  off2 + get_save_size(MT_CPAK) * idx2

is_auto(st) == user_io_status_get(st, AUTODETECT_OPT) = AUTO_ON

\* normalizeData that rotates each whole 4-byte word by one byte instead of
\* reversing it.
normalizeData_Rotated(data, size, format) ==
  [i \in 1..Len(data) |->
     IF i <= size - (size % 4) THEN data[4 * ((i - 1) \div 4) + (i % 4) + 1]
     ELSE data[i]]

(***************************************************************************)
(* normalizeData (n64.cpp:206-236) on a sequence of bytes: byte-swapped    *)
(* data has each whole byte pair exchanged, little-endian data has each    *)
(* whole 4-byte word reversed; a trailing partial unit is left as it is.   *)
(***************************************************************************)
normalizeData(data, size, format) ==
  CASE format = DF_BYTE_SWAPPED ->
         LET sz == size - (size % 2)
         IN  [i \in 1..Len(data) |->
                IF i <= sz THEN data[IF i % 2 = 1 THEN i + 1 ELSE i - 1] ELSE data[i]]
    [] format = DF_LITTLE_ENDIAN ->
         LET sz == size - (size % 4)
         IN  [i \in 1..Len(data) |->
                IF i <= sz THEN data[4 * ((i - 1) \div 4) + 4 - ((i - 1) % 4)]
                ELSE data[i]]
    [] OTHER -> data

\* detectRomFormat without the malformed homebrew boot vectors.
detectRomFormat_NoMalformed(data) ==
  LET val == <<data[4], data[3], data[2], data[1]>>
  IN  IF val \in {<<64, 18, 55, 128>>, <<64, 7, 39, 128>>} THEN DF_BIG_ENDIAN
      ELSE IF val \in {<<18, 64, 128, 55>>, <<7, 64, 128, 39>>} THEN DF_BYTE_SWAPPED
      ELSE IF val \in {<<128, 55, 18, 64>>, <<128, 39, 7, 64>>} THEN DF_LITTLE_ENDIAN
      ELSE IF data[1] = 128 THEN DF_BIG_ENDIAN
      ELSE IF data[1] \in {55, 39} THEN DF_BYTE_SWAPPED
      ELSE IF data[1] = 64 THEN DF_LITTLE_ENDIAN
      ELSE DF_UNKNOWN

(***************************************************************************)
(* detectRomFormat (n64.cpp:167-204).  val is the first four bytes read as *)
(* a 32-bit word on the little-endian host, kept as its four bytes from    *)
(* the most significant down: 0x40123780 is <<64, 18, 55, 128>>, and       *)
(* val & 0xff is data[1].                                                  *)
(***************************************************************************)
detectRomFormat(data) ==
  LET val == <<data[4], data[3], data[2], data[1]>>
  IN  IF val \in {<<64, 18, 55, 128>>, <<64, 7, 39, 128>>, <<65, 18, 55, 128>>}
      THEN DF_BIG_ENDIAN
      ELSE IF val \in {<<18, 64, 128, 55>>, <<7, 64, 128, 39>>, <<18, 65, 128, 55>>}
      THEN DF_BYTE_SWAPPED
      ELSE IF val \in {<<128, 55, 18, 64>>, <<128, 39, 7, 64>>, <<128, 55, 18, 65>>}
      THEN DF_LITTLE_ENDIAN
      ELSE IF data[1] = 128 THEN DF_BIG_ENDIAN
      ELSE IF data[1] \in {55, 39} THEN DF_BYTE_SWAPPED
      ELSE IF data[1] \in {64, 65} THEN DF_LITTLE_ENDIAN
      ELSE DF_UNKNOWN

(***************************************************************************)
(* Tag interpreter: parse_and_apply_db_tags (n64.cpp:432-530).  A tag list *)
(* is the sequence of tokens strtok yields for the separators "| ".  The   *)
(* dispatch on fnv_hash(tag) is a match on the lower-cased token text.     *)
(***************************************************************************)
\* fnv_hash folds 'A'..'Z' to lower case before hashing (n64.cpp:32-35).
ToLower(tag) ==
  CASE tag = "CPAK" -> "cpak"
    [] tag = "Sram32k" -> "sram32k"
    [] tag = "NTSC" -> "ntsc"
    [] tag = "CIC7102" -> "cic7102"
    [] OTHER -> tag

SaveTags ==
  {<<"eeprom512", MT_EEPROM_512>>, <<"eeprom2k", MT_EEPROM_2k>>,
   <<"sram32k", MT_SRAM_32k>>, <<"sram96k", MT_SRAM_96k>>,
   <<"flash128k", MT_FLASH_128k>>}

\* Boot-chip tokens: <<token, chip, region the case jumps to (or unknown)>>.
CicTags ==
  {<<"cic6101", CIC_NUS_6101, SYS_NTSC>>, <<"cic6102", CIC_NUS_6102, SYS_NTSC>>,
   <<"cic6103", CIC_NUS_6103, SYS_NTSC>>, <<"cic6105", CIC_NUS_6105, SYS_NTSC>>,
   <<"cic6106", CIC_NUS_6106, SYS_NTSC>>, <<"cic7101", CIC_NUS_7101, SYS_PAL>>,
   <<"cic7102", CIC_NUS_7102, SYS_PAL>>, <<"cic7103", CIC_NUS_7103, SYS_PAL>>,
   <<"cic7105", CIC_NUS_7105, SYS_PAL>>, <<"cic7106", CIC_NUS_7106, SYS_PAL>>,
   <<"cic8303", CIC_NUS_8303, SYS_UNKNOWN>>, <<"cic8401", CIC_NUS_8401, SYS_UNKNOWN>>,
   <<"cic5167", CIC_NUS_5167, SYS_UNKNOWN>>, <<"cicddus", CIC_NUS_DDUS, SYS_UNKNOWN>>,
   <<"cic5101", CIC_NUS_5101, SYS_UNKNOWN>>}

\* The locals of parse_and_apply_db_tags before the token loop.
TagDefaults ==
  [save_type |-> MT_NONE, system_type |-> SYS_UNKNOWN, cic_type |-> CIC_UNKNOWN,
   no_epak |-> FALSE, cpak |-> FALSE, rpak |-> FALSE, tpak |-> FALSE,
   rtc |-> FALSE, wide |-> FALSE, prefered_pad |-> N64_PAD]

\* The preferred pad taken from the last pak token seen.
PreferPad_LastWins(r, pad) == pad

PreferPad(r, pad) == IF r.prefered_pad = N64_PAD THEN pad ELSE r.prefered_pad

\* One iteration of the switch over a token (n64.cpp:449-479).
ApplyLowerTag(r, t) ==
      CASE \E e \in SaveTags : e[1] = t ->
             [r EXCEPT !.save_type = (CHOOSE e \in SaveTags : e[1] = t)[2]]
        [] t = "noepak" -> [r EXCEPT !.no_epak = TRUE]
        [] t = "cpak" ->
             [r EXCEPT !.cpak = TRUE, !.prefered_pad = PreferPad(r, N64_PAD_WITH_CPAK)]
        [] t = "rpak" ->
             [r EXCEPT !.rpak = TRUE, !.prefered_pad = PreferPad(r, N64_PAD_WITH_RPAK)]
        [] t = "tpak" ->
             [r EXCEPT !.tpak = TRUE, !.prefered_pad = PreferPad(r, N64_PAD_WITH_TPAK)]
        [] t = "rtc" -> [r EXCEPT !.rtc = TRUE]
        [] t = "ntsc" -> [r EXCEPT !.system_type = SYS_NTSC]
        [] t = "pal" -> [r EXCEPT !.system_type = SYS_PAL]
        [] t = "wide" -> [r EXCEPT !.wide = TRUE]
        [] \E e \in CicTags : e[1] = t ->
             [r EXCEPT !.cic_type = (CHOOSE x \in CicTags : x[1] = t)[2],
                       !.system_type =
                          IF (CHOOSE x \in CicTags : x[1] = t)[3] = SYS_UNKNOWN
                          THEN @ ELSE (CHOOSE x \in CicTags : x[1] = t)[3]]
        [] OTHER -> r

\* The token is hashed in lower case (n64.cpp:441-447).
ApplyTag(r, tag) == ApplyLowerTag(r, ToLower(tag))

RECURSIVE ParseTagsFrom(_, _, _)
ParseTagsFrom(r, tags, i) ==
  IF i > Len(tags) THEN r ELSE ParseTagsFrom(ApplyTag(r, tags[i]), tags, i + 1)

\* No region default after the token loop.
RegionDefault_None(r) == r

\* The token loop and the region default that follows it (n64.cpp:448-484).
RegionDefault(r) ==
  IF r.system_type = SYS_UNKNOWN /\ r.cic_type # CIC_UNKNOWN
  THEN [r EXCEPT !.system_type = SYS_NTSC]
  ELSE r

ParseTags(tags) == RegionDefault(ParseTagsFrom(TagDefaults, tags, 1))

\* The one-slot stack saving the current ratio on every wide call.
ApplyWide_AlwaysSaves(st, oar, wide) ==
  IF wide
  THEN [st |-> user_io_status_set(st, AR_TYPE_OPT, AR_FULL),
        old_ar |-> user_io_status_get(st, AR_TYPE_OPT)]
  ELSE IF user_io_status_get(st, AR_TYPE_OPT) = AR_FULL /\ oar # AR_UNKNOWN
  THEN [st |-> user_io_status_set(st, AR_TYPE_OPT, oar), old_ar |-> AR_UNKNOWN]
  ELSE [st |-> st, old_ar |-> oar]

\* The wide-display one-slot stack (n64.cpp:517-527): the new aspect option and slot.
ApplyWide(st, oar, wide) ==
  IF wide
  THEN [st |-> user_io_status_set(st, AR_TYPE_OPT, AR_FULL),
        old_ar |-> IF user_io_status_get(st, AR_TYPE_OPT) # AR_FULL
                   THEN user_io_status_get(st, AR_TYPE_OPT) ELSE oar]
  ELSE IF user_io_status_get(st, AR_TYPE_OPT) = AR_FULL /\ oar # AR_UNKNOWN
  THEN [st |-> user_io_status_set(st, AR_TYPE_OPT, oar), old_ar |-> AR_UNKNOWN]
  ELSE [st |-> st, old_ar |-> oar]

\* The configuration writes of parse_and_apply_db_tags (n64.cpp:503-515).
SetIfKnown(st, opt, v, unknown) ==
  IF v # unknown THEN user_io_status_set(st, opt, v) ELSE st

\* The first controller follows the tags unless it is a real pad (n64.cpp:512-515).
SetPreferedPad(st, pad) ==
  IF user_io_status_get(st, CONTROLLER_OPTS[1]) # SNAC
  THEN user_io_status_set(st, CONTROLLER_OPTS[1], pad)
  ELSE st

ApplyTagSettings(st, r) ==
  SetPreferedPad(
    set_cart_save_type(
      user_io_status_set(
        user_io_status_set(
          user_io_status_set(
            user_io_status_set(
              user_io_status_set(
                SetIfKnown(SetIfKnown(st, SYS_TYPE_OPT, r.system_type, SYS_UNKNOWN),
                           CIC_TYPE_OPT, r.cic_type, CIC_UNKNOWN),
                NO_EPAK_OPT, BoolToInt(r.no_epak)),
              CPAK_OPT, BoolToInt(r.cpak)),
            RPAK_OPT, BoolToInt(r.rpak)),
          TPAK_OPT, BoolToInt(r.tpak)),
        RTC_OPT, BoolToInt(r.rtc)),
      r.save_type),
    r.prefered_pad)

\* The options parse_and_apply_db_tags writes for the parsed tags r
\* (n64.cpp:496-527): none with auto-detection off.
WrittenByTags(st, oar, r) ==
  IF ~is_auto(st) THEN {}
  ELSE {NO_EPAK_OPT, CPAK_OPT, RPAK_OPT, TPAK_OPT, RTC_OPT, SAVE_TYPE_OPT}
       \cup (IF r.system_type # SYS_UNKNOWN THEN {SYS_TYPE_OPT} ELSE {})
       \cup (IF r.cic_type # CIC_UNKNOWN THEN {CIC_TYPE_OPT} ELSE {})
       \cup (IF user_io_status_get(st, CONTROLLER_OPTS[1]) # SNAC
             THEN {CONTROLLER_OPTS[1]} ELSE {})
       \cup (IF r.wide \/ (user_io_status_get(st, AR_TYPE_OPT) = AR_FULL
                            /\ oar # AR_UNKNOWN)
             THEN {AR_TYPE_OPT} ELSE {})

TagsOutcome(w, result) == [st |-> w.st, old_ar |-> w.old_ar, ret |-> result]

\* The tags applied whether auto-detection is on or off.
ApplyParsedTags_AlwaysApplies(st, oar, r) ==
  TagsOutcome(ApplyWide(ApplyTagSettings(st, r), oar, r.wide),
              r.system_type # SYS_UNKNOWN /\ r.cic_type # CIC_UNKNOWN)

\* The writes and the result for the parsed tags r (n64.cpp:486-530).
ApplyParsedTags(st, oar, r) ==
  IF ~is_auto(st)
  THEN [st |-> st, old_ar |-> oar, ret |-> TRUE]
  ELSE TagsOutcome(ApplyWide(ApplyTagSettings(st, r), oar, r.wide),
                   r.system_type # SYS_UNKNOWN /\ r.cic_type # CIC_UNKNOWN)

\* parse_and_apply_db_tags: the new status word, the new old_ar and the result.
parse_and_apply_db_tags(st, oar, tags) == ApplyParsedTags(st, oar, ParseTags(tags))

(***************************************************************************)
(* Knowledge-base files.  A file is [readable, lines]; a line is           *)
(*   [kind |-> "md5", key, ok, tags]        32 hex characters, then a field *)
(*   [kind |-> "id", pat, term, ok, tags]   "ID:", pattern characters up   *)
(*                                          to white space ("ws") or the   *)
(*                                          end of the line ("eol")        *)
(*   [kind |-> "other"]                     a comment or an empty line     *)
(* ok says whether sscanf("%*[ \t]%[^#;]") finds a tag field after the     *)
(* key; tags is the token list of that field.  A hash is an opaque value:  *)
(* MD5 is a collaborator of this code.                                     *)
(***************************************************************************)
HexDigits == <<"0", "1", "2", "3", "4", "5", "6", "7", "8", "9", "A", "B", "C", "D", "E", "F">>

AlnumChars == {HexDigits[i] : i \in 1..16} \cup {"N", "S", "M", "P", "J", "Z", "a", "f"}

isalnum(c) == c \in AlnumChars

NUL == "NUL"

\* md5_matches (n64.cpp:532-541): the line starts with the 32 hex characters.
md5_matches(line, md5) == line.kind = "md5" /\ line.key = md5

(***************************************************************************)
(* cart_id_is_match (n64.cpp:543-565).  The loop runs while i < 6 and the  *)
(* line has not ended; white space after the first position ends it early  *)
(* with the count i; running off the end of the line leaves the loop and   *)
(* returns CARTID_LENGTH.                                                  *)
(***************************************************************************)
RECURSIVE CartIdLoop(_, _, _)
CartIdLoop(line, cart_id, i) ==
  IF i >= CARTID_LENGTH THEN CARTID_LENGTH
  ELSE IF i >= Len(line.pat)
  THEN IF line.term = "eol" THEN CARTID_LENGTH
       ELSE IF i # 0 THEN i
       ELSE 0
  ELSE IF line.pat[i + 1] # "_" /\ line.pat[i + 1] # cart_id[i + 1] THEN 0
  ELSE CartIdLoop(line, cart_id, i + 1)

cart_id_is_match(line, cart_id) ==
  IF line.kind # "id" THEN 0 ELSE CartIdLoop(line, cart_id, 0)

\* The tag field sscanf finds at s = line + prefix + i (n64.cpp:617-622): past
\* the end of the line the read is out of bounds and yields whatever ub holds.
IdTagField(line, i, ub) ==
  IF i < Len(line.pat) THEN [ok |-> FALSE, tags |-> <<>>]
  ELSE IF i = Len(line.pat)
  THEN IF line.term = "ws" THEN [ok |-> line.ok, tags |-> line.tags]
       ELSE [ok |-> FALSE, tags |-> <<>>]
  ELSE ub

NoMatch(st, oar) == [det |-> 0, st |-> st, old_ar |-> oar, line |-> 0, wrote |-> {}]

\* The result of a matched line: malformed (2), or the tags applied (3 or 2);
\* wrote is the set of options written on the way.
Matched(r, n, wrote) ==
  [det |-> IF r.ret THEN 3 ELSE 2, st |-> r.st, old_ar |-> r.old_ar, line |-> n,
   wrote |-> wrote]

MatchResult(st, oar, field, n) ==
  IF ~field.ok THEN [det |-> 2, st |-> st, old_ar |-> oar, line |-> n, wrote |-> {}]
  ELSE Matched(parse_and_apply_db_tags(st, oar, field.tags), n,
               WrittenByTags(st, oar, ParseTags(field.tags)))

\* detect_rom_settings_in_db (n64.cpp:567-598)
RECURSIVE ScanMd5(_, _, _, _, _)
ScanMd5(st, oar, lookup_hash, lines, n) ==
  IF n > Len(lines) THEN NoMatch(st, oar)
  ELSE IF ~md5_matches(lines[n], lookup_hash)
  THEN ScanMd5(st, oar, lookup_hash, lines, n + 1)
  ELSE MatchResult(st, oar, [ok |-> lines[n].ok, tags |-> lines[n].tags], n)

detect_rom_settings_in_db(st, oar, lookup_hash, db_file) ==
  IF ~db_file.readable THEN NoMatch(st, oar)
  ELSE ScanMd5(st, oar, lookup_hash, db_file.lines, 1)

\* detect_rom_settings_in_db_with_cartid (n64.cpp:600-631)
RECURSIVE ScanCartId(_, _, _, _, _, _)
ScanCartId(st, oar, cart_id, lines, n, ub) ==
  IF n > Len(lines) THEN NoMatch(st, oar)
  ELSE IF cart_id_is_match(lines[n], cart_id) = 0
  THEN ScanCartId(st, oar, cart_id, lines, n + 1, ub)
  ELSE MatchResult(st, oar,
                   IdTagField(lines[n], cart_id_is_match(lines[n], cart_id), ub), n)

detect_rom_settings_in_db_with_cartid(st, oar, cart_id, db_file, ub) ==
  IF ~db_file.readable THEN NoMatch(st, oar)
  ELSE ScanCartId(st, oar, cart_id, db_file.lines, 1, ub)

\* The bundled file consulted before the user's.
FirstDetected_BundledFirst(r1, r2) ==
  IF r2.det # 0 THEN [r2 EXCEPT !.line = <<2, @>>]
  ELSE IF r1.det # 0 THEN [r1 EXCEPT !.line = <<1, @>>]
  ELSE [r2 EXCEPT !.line = <<0, 0>>]

\* detect_rom_settings_in_dbs_with_md5 (n64.cpp:638-647): dbs is DB_FILE_NAMES
\* resolved to the files, the user's file first; r1 and r2 are the results of
\* the two files, line becomes <<file, line>> of the record that matched.
FirstDetected(r1, r2) ==
  IF r1.det # 0 THEN [r1 EXCEPT !.line = <<1, @>>]
  ELSE IF r2.det # 0 THEN [r2 EXCEPT !.line = <<2, @>>]
  ELSE [r2 EXCEPT !.line = <<0, 0>>]

detect_rom_settings_in_dbs_with_md5(st, oar, lookup_hash, dbs) ==
  FirstDetected(detect_rom_settings_in_db(st, oar, lookup_hash, dbs[1]),
                detect_rom_settings_in_db(st, oar, lookup_hash, dbs[2]))

\* detect_rom_settings_in_dbs_with_cartid (n64.cpp:649-669)
detect_rom_settings_in_dbs_with_cartid(st, oar, lookup_id, dbs, ub) ==
  IF \E i \in 1..CARTID_LENGTH : ~isalnum(lookup_id[i])
  THEN [NoMatch(st, oar) EXCEPT !.line = <<0, 0>>]
  ELSE FirstDetected(
         detect_rom_settings_in_db_with_cartid(st, oar, lookup_id, dbs[1], ub),
         detect_rom_settings_in_db_with_cartid(st, oar, lookup_id, dbs[2], ub))

\* hex_to_dec (n64.cpp:381-386)
hex_to_dec(x) ==
  IF \E i \in 1..16 : HexDigits[i] = x THEN (CHOOSE i \in 1..16 : HexDigits[i] = x) - 1
  ELSE IF x = "a" THEN 10
  ELSE IF x = "f" THEN 15
  ELSE 0

(***************************************************************************)
(* detect_homebrew_header (n64.cpp:672-748).  cart_id is 1-based here, so  *)
(* cart_id[1], [2], [4], [5] of the source are cart_id[2], [3], [5], [6].  *)
(***************************************************************************)
HomebrewSaveType(x) ==
  LET d == hex_to_dec(x)
  IN  CASE d = 1 -> MT_EEPROM_512
        [] d = 2 -> MT_EEPROM_2k
        [] d = 3 -> MT_SRAM_32k
        [] d = 4 -> MT_SRAM_96k
        [] d = 5 -> MT_FLASH_128k
        [] OTHER -> MT_NONE

\* The controller loop body without the test for an externally driven slot.
HomebrewPad_IgnoresSnac(st, controller_settings, c_idx) ==
  LET c == controller_settings[c_idx]
      c_opt == CONTROLLER_OPTS[c_idx]
  IN  IF c # 0
      THEN IF c < 128
           THEN user_io_status_set(st, c_opt,
                  IF c = 1 THEN N64_PAD_WITH_RPAK
                  ELSE IF c = 2 THEN N64_PAD_WITH_CPAK
                  ELSE IF c = 3 /\ c_idx = 1 THEN N64_PAD_WITH_TPAK
                  ELSE N64_PAD)
           ELSE IF c = 255 THEN user_io_status_set(st, c_opt, UNPLUGGED)
           ELSE st
      ELSE st

\* The controller loop body for slot c_idx (1-based) (n64.cpp:732-743).
HomebrewPad(st, controller_settings, c_idx) ==
  LET c == controller_settings[c_idx]
      c_opt == CONTROLLER_OPTS[c_idx]
  IN  IF c # 0 /\ user_io_status_get(st, c_opt) # SNAC
      THEN IF c < 128
           THEN user_io_status_set(st, c_opt,
                  IF c = 1 THEN N64_PAD_WITH_RPAK
                  ELSE IF c = 2 THEN N64_PAD_WITH_CPAK
                  ELSE IF c = 3 /\ c_idx = 1 THEN N64_PAD_WITH_TPAK
                  ELSE N64_PAD)
           ELSE IF c = 255 THEN user_io_status_set(st, c_opt, UNPLUGGED)
           ELSE st
      ELSE st

\* The options detect_homebrew_header writes when it accepts the header
\* (n64.cpp:684-745).
HomebrewWrites(st, controller_settings) ==
  {SAVE_TYPE_OPT, RTC_OPT, RPAK_OPT, CPAK_OPT, TPAK_OPT}
  \cup {CONTROLLER_OPTS[i] : i \in {j \in 1..4 :
           /\ controller_settings[j] # 0
           /\ user_io_status_get(st, CONTROLLER_OPTS[j]) # SNAC
           /\ controller_settings[j] < 128 \/ controller_settings[j] = 255}}

detect_homebrew_header(st, controller_settings, cart_id) ==
  IF cart_id[2] # "E" \/ cart_id[3] # "D" THEN [st |-> st, ret |-> FALSE]
  ELSE IF ~is_auto(st) THEN [st |-> st, ret |-> FALSE]
  ELSE LET has(v) == \E i \in 1..4 : controller_settings[i] = v
           s1 == set_cart_save_type(st, HomebrewSaveType(cart_id[5]))
           s2 == user_io_status_set(s1, RTC_OPT, hex_to_dec(cart_id[6]) % 2)
           s3 == user_io_status_set(s2, RPAK_OPT, BoolToInt(has(1)))
           s4 == user_io_status_set(s3, CPAK_OPT, BoolToInt(has(2)))
           s5 == user_io_status_set(s4, TPAK_OPT, BoolToInt(has(3)))
           c1 == HomebrewPad(s5, controller_settings, 1)
           c2 == HomebrewPad(c1, controller_settings, 2)
           c3 == HomebrewPad(c2, controller_settings, 3)
           c4 == HomebrewPad(c3, controller_settings, 4)
       IN  [st |-> c4, ret |-> TRUE]

(***************************************************************************)
(* detect_rom_settings_from_first_chunk (n64.cpp:750-834).  A boot-code     *)
(* checksum is a 64-bit sum; it is kept as the text of its hex value, and  *)
(* the switch over it as a look-up in the table of its labelled cases.     *)
(***************************************************************************)
PalRegionCodes == {"D", "F", "H", "I", "L", "P", "S", "U", "W", "X", "Y", "Z"}

\* <<signature, family>>: the case labels of the switch and the branch each takes.
SignatureTable ==
  {<<"a316adc55a", "x102">>, <<"a30dacd530", "x102">>, <<"039c981107", "x102">>,
   <<"d2828281b0", "x102">>, <<"d2be3c4486", "x102">>, <<"9acc31e644", "x102">>,
   <<"9474732e6b", "x102">>,
   <<"a405397b05", "7102">>, <<"a3fc388adb", "7102">>,
   <<"a0f26f62fe", "6101">>, <<"a0e96e72d4", "6101">>,
   <<"a9229d7c45", "x103">>, <<"a9199c8c1b", "x103">>, <<"271316d406", "x103">>,
   <<"f8b860ed00", "x105">>, <<"f8af5ffcd6", "x105">>,
   <<"ba5ba4b8cd", "x106">>,
   <<"12daafc8aab", "5167">>, <<"a9df4b39e1", "8303">>, <<"aa764e39e1", "8401">>,
   <<"abb0b739e1", "DDUS">>,
   <<"81ce470326", "5101">>, <<"827a47195a", "5101">>, <<"82551e4848", "5101">>}

IsKnownSignature(sig) == \E e \in SignatureTable : e[1] = sig

\* The branch taken for a family: the region and the chip it assigns.
CicBranch(family, system_type) ==
  LET ntsc == system_type # SYS_PAL
  IN  CASE family = "x102" ->
             [system_type |-> system_type, cic |-> IF ntsc THEN CIC_NUS_6102 ELSE CIC_NUS_7101]
        [] family = "7102" -> [system_type |-> SYS_PAL, cic |-> CIC_NUS_7102]
        [] family = "6101" -> [system_type |-> SYS_NTSC, cic |-> CIC_NUS_6101]
        [] family = "x103" ->
             [system_type |-> system_type, cic |-> IF ntsc THEN CIC_NUS_6103 ELSE CIC_NUS_7103]
        [] family = "x105" ->
             [system_type |-> system_type, cic |-> IF ntsc THEN CIC_NUS_6105 ELSE CIC_NUS_7105]
        [] family = "x106" ->
             [system_type |-> system_type, cic |-> IF ntsc THEN CIC_NUS_6106 ELSE CIC_NUS_7106]
        [] family = "5167" -> [system_type |-> system_type, cic |-> CIC_NUS_5167]
        [] family = "8303" -> [system_type |-> system_type, cic |-> CIC_NUS_8303]
        [] family = "8401" -> [system_type |-> system_type, cic |-> CIC_NUS_8401]
        [] family = "DDUS" -> [system_type |-> system_type, cic |-> CIC_NUS_DDUS]
        [] OTHER -> [system_type |-> system_type, cic |-> CIC_NUS_5101]

\* The loop taking the second signature before the first.
CicLoop_SecondFirst(signatures, k, n, system_type) ==
  IF IsKnownSignature(signatures[2])
  THEN CicBranch((CHOOSE e \in SignatureTable : e[1] = signatures[2])[2], system_type)
         @@ [is_known_cic |-> TRUE, tries |-> 1]
  ELSE IF IsKnownSignature(signatures[1])
  THEN CicBranch((CHOOSE e \in SignatureTable : e[1] = signatures[1])[2], system_type)
         @@ [is_known_cic |-> TRUE, tries |-> 2]
  ELSE CicBranch("x102", system_type) @@ [is_known_cic |-> FALSE, tries |-> 2]

\* The do-while over the signatures (n64.cpp:774-819): n counts the tries left.
RECURSIVE CicLoop(_, _, _, _)
CicLoop(signatures, k, n, system_type) ==
  IF IsKnownSignature(signatures[k])
  THEN CicBranch((CHOOSE e \in SignatureTable : e[1] = signatures[k])[2], system_type)
         @@ [is_known_cic |-> TRUE, tries |-> k]
  ELSE IF n - 1 # 0 THEN CicLoop(signatures, k + 1, n - 1, system_type)
  ELSE CicBranch("x102", system_type) @@ [is_known_cic |-> FALSE, tries |-> k]

detect_rom_settings_from_first_chunk(st, region_code, signatures) ==
  LET system_type == IF region_code \in PalRegionCodes THEN SYS_PAL ELSE SYS_NTSC
      d == CicLoop(signatures, 1, 2, system_type)
  IN  IF ~is_auto(st) THEN [st |-> st, ret |-> TRUE, tries |-> d.tries]
      ELSE [st |-> user_io_status_set(
                     user_io_status_set(st, SYS_TYPE_OPT, d.system_type),
                     CIC_TYPE_OPT, d.cic),
            ret |-> d.is_known_cic, tries |-> d.tries]

(***************************************************************************)
(* Files.  A path is <<base name, pak number, extension>>.  The file       *)
(* system fs maps the paths that exist to files; a file is                 *)
(*   [size, fill, k, n, rev, over]                                         *)
(* where fill says what create_file wrote ("zero", "hdr": the controller-  *)
(* pak template k, "old": n bytes of the legacy file from offset k, word   *)
(* reversed when rev, "user": a file that was there before), and over maps *)
(* the byte offsets written since by block writes to their bytes.          *)
(***************************************************************************)
CPAK_HEADER_COUNT == 4
CPAK_HEADER_SIZE == 512

\* A ROM name is <<directory, base name, extension>>; the save name keeps the
\* part after the last '/' and replaces what follows the last '.'.
PathOf(name, n, ext) == <<name[2], n, ext>>

\* get_old_save_path (n64.cpp:918-940)
get_old_save_path(name) == PathOf(name, 0, ".sav")

\* The extension switch of mount_save_file (n64.cpp:880-901)
SavePath(name, type, st, mounted) ==
  CASE type \in {MT_EEPROM_512, MT_EEPROM_2k} -> PathOf(name, 0, ".eep")
    [] type \in {MT_SRAM_32k, MT_SRAM_96k} -> PathOf(name, 0, ".sra")
    [] type = MT_FLASH_128k -> PathOf(name, 0, ".fla")
    [] IsPak(type) ->
         PathOf(name, mounted + (IF get_cart_save_type(st) = MT_NONE THEN 1 ELSE 0),
                IF type = MT_CPAK THEN ".cpk" ELSE ".tpk")
    [] OTHER -> PathOf(name, 0, ".sav")

FileExists(files, path) == path \in DOMAIN files

\* Byte o (0-based) of a file that was there before the model starts.
UserByte(o) == 1 + (o % 251)

\* Byte o of controller-pak template k (n64_cpak_header.h).
CpakHeaderByte(k, o) == 1 + ((k + o) % 7)

WordReversed(o) == 4 * (o \div 4) + 3 - (o % 4)

\* Byte o (0-based) of a file.
FileByte(f, o) ==
  IF o \in DOMAIN f.over THEN f.over[o]
  ELSE CASE f.fill = "zero" -> 0
         [] f.fill = "hdr" -> IF o < CPAK_HEADER_SIZE THEN CpakHeaderByte(f.k, o) ELSE 0
         [] f.fill = "old" ->
              LET src == IF f.rev THEN WordReversed(o) ELSE o
              IN  IF src < f.n THEN UserByte(f.k + src) ELSE 0
         [] OTHER -> UserByte(o)

NoOverlay == [o \in {} |-> 0]

\* read_file that reports sz bytes read whatever the length of the file.
read_file_NoClamp(files, filename, offset, sz) ==
  IF ~FileExists(files, filename) THEN 0 ELSE sz

\* read_file (n64.cpp:282-304): the number of bytes read from the legacy file.
read_file(files, filename, offset, sz) ==
  IF ~FileExists(files, filename) THEN 0
  ELSE LET fsz == files[filename].size
       IN  IF offset > fsz THEN 0
           ELSE IF offset + sz > fsz THEN fsz - offset
           ELSE sz

\* create_if_missing reporting a file that was already there as created.
create_if_missing_AlwaysNew(files, st, mounted, type, path, old_path, can_create) ==
  IF FileExists(files, path) THEN [fs |-> files, is_new |-> TRUE]
  ELSE LET sz == get_save_size(type)
           off == get_save_file_offset(st, mounted)
           got == IF sz # 0 /\ FileExists(files, old_path)
                  THEN read_file(files, old_path, off, sz) ELSE 0
           found_old_data == got # 0
           content ==
             IF found_old_data
             THEN [size |-> sz, fill |-> "old", k |-> off, n |-> got,
                   rev |-> IsPak(type), over |-> NoOverlay]
             ELSE IF type = MT_CPAK
             THEN [size |-> sz, fill |-> "hdr", k |-> mounted % CPAK_HEADER_COUNT,
                   n |-> 0, rev |-> FALSE, over |-> NoOverlay]
             ELSE [size |-> sz, fill |-> "zero", k |-> 0, n |-> 0, rev |-> FALSE,
                   over |-> NoOverlay]
       IN  IF ~can_create THEN [fs |-> files, is_new |-> FALSE]
           ELSE [fs |-> (path :> content) @@ files, is_new |-> sz # 0]

\* create_if_missing without the test for a file that is already there.
create_if_missing_Overwrites(files, st, mounted, type, path, old_path, can_create) ==
  LET sz == get_save_size(type)
      off == get_save_file_offset(st, mounted)
      got == IF sz # 0 /\ FileExists(files, old_path)
             THEN read_file(files, old_path, off, sz) ELSE 0
      content ==
        IF got # 0
        THEN [size |-> sz, fill |-> "old", k |-> off, n |-> got,
              rev |-> IsPak(type), over |-> NoOverlay]
        ELSE IF type = MT_CPAK
        THEN [size |-> sz, fill |-> "hdr", k |-> mounted % CPAK_HEADER_COUNT,
              n |-> 0, rev |-> FALSE, over |-> NoOverlay]
        ELSE [size |-> sz, fill |-> "zero", k |-> 0, n |-> 0, rev |-> FALSE,
              over |-> NoOverlay]
  IN  IF ~can_create THEN [fs |-> files, is_new |-> FALSE]
      ELSE [fs |-> (path :> content) @@ files, is_new |-> sz # 0]

(***************************************************************************)
(* SaveFile::create_if_missing (n64.cpp:334-364) for a SaveFile that is    *)
(* not mounted yet (idx < 0), so that mounted_save_files stands for its    *)
(* slot.  can_create is whether fopen(path, "w") succeeds.  The result is  *)
(* the new file system and whether the file was created.                   *)
(***************************************************************************)
create_if_missing(files, st, mounted, type, path, old_path, can_create) ==
  IF FileExists(files, path) THEN [fs |-> files, is_new |-> FALSE]
  ELSE LET sz == get_save_size(type)
           off == get_save_file_offset(st, mounted)
           got == IF sz # 0 /\ FileExists(files, old_path)
                  THEN read_file(files, old_path, off, sz) ELSE 0
           found_old_data == got # 0
           content ==
             IF found_old_data
             THEN [size |-> sz, fill |-> "old", k |-> off, n |-> got,
                   rev |-> IsPak(type), over |-> NoOverlay]
             ELSE IF type = MT_CPAK
             THEN [size |-> sz, fill |-> "hdr", k |-> mounted % CPAK_HEADER_COUNT,
                   n |-> 0, rev |-> FALSE, over |-> NoOverlay]
             ELSE [size |-> sz, fill |-> "zero", k |-> 0, n |-> 0, rev |-> FALSE,
                   over |-> NoOverlay]
       IN  IF ~can_create THEN [fs |-> files, is_new |-> FALSE]
           ELSE [fs |-> (path :> content) @@ files, is_new |-> sz # 0]

\* An image slot of the host (get_image): closed, or bound to a path.
ClosedImage == [name |-> <<"", 0, "">>, size |-> 0, opened |-> FALSE]

\* user_io_file_mount(path, idx, 1): the slot is opened on the file if it exists.
user_io_file_mount(files, path) ==
  IF FileExists(files, path)
  THEN [name |-> path, size |-> files[path].size, opened |-> TRUE]
  ELSE [name |-> path, size |-> 0, opened |-> FALSE]

UnmountedSaveFile == [idx |-> -1, type |-> MT_NONE]

\* SaveFile::mount (n64.cpp:328-331) and the copy into save_files
\* (n64.cpp:913-914): the slot the region takes and the new count.
mount(mounted) == [idx |-> mounted, count |-> mounted + 1]

\* unmount_all_save_files that leaves the registry as it is.
unmount_all_save_files_Kept(sfiles, images, mounted) ==
  [save_files |-> sfiles, sd_image |-> images, mounted |-> mounted]

\* unmount_all_save_files (n64.cpp:1034-1044): every slot closed and cleared.
unmount_all_save_files(sfiles, images, mounted) ==
  [save_files |-> [i \in 0..(MAX_SAVE_FILES - 1) |-> UnmountedSaveFile],
   sd_image |-> [i \in 0..(MAX_SAVE_FILES - 1) |-> ClosedImage],
   mounted |-> 0]

\* mount_save_file that gives up the region when its file cannot be created.
mount_save_file_GivesUp(files, st, r, name, type, can_create) ==
  LET save_path == SavePath(name, type, st, r.mounted)
      c == create_if_missing(files, st, r.mounted, type, save_path,
                             get_old_save_path(name), can_create)
      m == mount(r.mounted)
  IN  IF ~FileExists(c.fs, save_path)
      THEN [fs |-> c.fs, is_new |-> c.is_new, save_files |-> r.save_files,
            sd_image |-> r.sd_image, mounted |-> r.mounted]
      ELSE [fs |-> c.fs, is_new |-> c.is_new,
            save_files |-> [r.save_files EXCEPT
                              ![m.idx] = [idx |-> m.idx, type |-> type]],
            sd_image |-> [r.sd_image EXCEPT
                            ![m.idx] = user_io_file_mount(c.fs, save_path)],
            mounted |-> m.count]

(***************************************************************************)
(* mount_save_file (n64.cpp:864-916): the path, create_if_missing, mount   *)
(* and the copy into save_files.  r is the registry                        *)
(* [save_files, sd_image, mounted]; the result adds fs and is_new.         *)
(***************************************************************************)
mount_save_file(files, st, r, name, type, can_create) ==
  LET save_path == SavePath(name, type, st, r.mounted)
      c == create_if_missing(files, st, r.mounted, type, save_path,
                             get_old_save_path(name), can_create)
      m == mount(r.mounted)
  IN  [fs |-> c.fs, is_new |-> c.is_new,
       save_files |-> [r.save_files EXCEPT ![m.idx] = [idx |-> m.idx, type |-> type]],
       sd_image |-> [r.sd_image EXCEPT ![m.idx] = user_io_file_mount(c.fs, save_path)],
       mounted |-> m.count]

(***************************************************************************)
(* Block I/O.  The region of a byte offset is found by the loop of         *)
(* n64.cpp:948-957 and 996-1006.                                           *)
(***************************************************************************)
\* The region loop that stops at the last slot instead of flagging the
\* request.
FindFile_Clamped(st, mounted, pos, file_idx) ==
  [file_idx |-> IF mounted = 0 THEN 0
                ELSE CHOOSE i \in 0..(mounted - 1) :
                       /\ i = mounted - 1 \/ pos < get_save_file_offset(st, i + 1)
                       /\ \A j \in 0..(i - 1) : pos >= get_save_file_offset(st, j + 1),
   invalid |-> FALSE]

RECURSIVE FindFile(_, _, _, _)
FindFile(st, mounted, pos, file_idx) ==
  IF pos >= get_save_file_offset(st, file_idx + 1)
  THEN IF file_idx + 1 >= mounted
       THEN [file_idx |-> file_idx + 1, invalid |-> TRUE]
       ELSE FindFile(st, mounted, pos, file_idx + 1)
  ELSE [file_idx |-> file_idx, invalid |-> FALSE]

Zeros(n) == [i \in 1..n |-> 0]

Min(a, b) == IF a < b THEN a ELSE b

Max(a, b) == IF a < b THEN b ELSE a

\* The byte-order transcoding of a pak region's block (n64.cpp:979-981, 1024-1026).
Transcode(type, buffer, sz) ==
  IF IsPak(type) THEN normalizeData(buffer, sz, DF_LITTLE_ENDIAN) ELSE buffer

(***************************************************************************)
(* n64_load_savedata (n64.cpp:942-988).  r is the registry, buffer the     *)
(* caller's block buffer.  The result: the new buffer, buffer_lba, whether *)
(* the request was out of range, the slot, whether a backing file was      *)
(* read, and the blocks sent to the transport.                             *)
(***************************************************************************)
\* FileSeek and FileReadAdv (n64.cpp:968): the number of bytes read at pos.
BytesRead(files, file, pos, buffer_size) ==
  IF file.opened /\ FileExists(files, file.name) /\ pos >= 0
  THEN Min(buffer_size, Max(files[file.name].size - pos, 0))
  ELSE 0

\* The buffer after FileReadAdv put nread bytes of the file into it.
ReadInto(files, file, pos, buffer, nread) ==
  [i \in 1..Len(buffer) |->
     IF i <= nread THEN FileByte(files[file.name], pos + i - 1) ELSE buffer[i]]

\* The block handed to the core (n64.cpp:975-987).
LoadResult(lba, loc, try, done, out, sz) ==
  [buffer |-> out,
   buffer_lba |-> IF loc.invalid \/ done THEN lba ELSE -1,
   invalid |-> loc.invalid, file_idx |-> loc.file_idx,
   file_read |-> try,
   sent |-> <<SubSeq(out, 1, sz)>>]

\* The read that sends the buffer as it is when nothing was read.
LoadRead_NoMemset(r, files, lba, buffer, sz, loc, file, pos, nread) ==
  IF loc.invalid \/ file.size = 0 \/ nread = 0
  THEN LoadResult(lba, loc, ~loc.invalid /\ file.size # 0, FALSE, buffer, sz)
  ELSE LoadResult(lba, loc, TRUE, TRUE,
                  Transcode(r.save_files[loc.file_idx].type,
                            ReadInto(files, file, pos, buffer, nread), sz), sz)

\* The read of the region's backing file (n64.cpp:959-973).
LoadRead(r, files, lba, buffer, sz, loc, file, pos, nread) ==
  IF loc.invalid \/ file.size = 0 \/ nread = 0
  THEN LoadResult(lba, loc, ~loc.invalid /\ file.size # 0, FALSE,
                  Zeros(Len(buffer)), sz)
  ELSE LoadResult(lba, loc, TRUE, TRUE,
                  Transcode(r.save_files[loc.file_idx].type,
                            ReadInto(files, file, pos, buffer, nread), sz), sz)

LoadAt(r, files, lba, buffer, sz, loc, file, pos) ==
  LoadRead(r, files, lba, buffer, sz, loc, file, pos,
           IF loc.invalid \/ file.size = 0 THEN 0
           ELSE BytesRead(files, file, pos, Len(buffer)))

LoadIn(st, r, files, lba, buffer, blksz, sz, loc) ==
  LoadAt(r, files, lba, buffer, sz, loc, r.sd_image[loc.file_idx],
         lba * blksz - get_save_file_offset(st, loc.file_idx))

n64_load_savedata(st, r, files, lba, buffer, blksz, sz) ==
  LoadIn(st, r, files, lba, buffer, blksz, sz, FindFile(st, r.mounted, lba * blksz, 0))

(***************************************************************************)
(* n64_save_savedata (n64.cpp:990-1032).  block is the sz bytes the        *)
(* transport delivers.  The result: the new file system and buffer, the    *)
(* blocks taken from the transport, the slot and whether a file was        *)
(* written.                                                                *)
(***************************************************************************)
\* spi_block_read (n64.cpp:1011): sz bytes of the buffer are replaced.
BlockRead(buffer, block, sz) ==
  [i \in 1..Len(buffer) |-> IF i <= sz THEN block[i] ELSE buffer[i]]

\* FileWriteAdv (n64.cpp:1027): sz bytes of out written at pos.
FileWritten(old, pos, out, sz) ==
  [old EXCEPT
     !.over = [o \in (DOMAIN old.over) \cup (pos..(pos + sz - 1)) |->
                 IF o >= pos /\ o < pos + sz THEN out[o - pos + 1] ELSE old.over[o]],
     !.size = Max(old.size, pos + sz)]

SaveResult(files, loc, out, seek) ==
  [fs |-> files, buffer |-> out, buffer_lba |-> -1,
   invalid |-> loc.invalid, file_idx |-> loc.file_idx,
   file_written |-> seek, taken |-> 1]

\* The write of the transcoded block (n64.cpp:1021-1031).
SaveWrite(files, loc, file, pos, out, sz) ==
  SaveResult([files EXCEPT ![file.name] = FileWritten(files[file.name], pos, out, sz)],
             loc, out, TRUE)

SaveAt(r, files, sz, loc, file, pos, got) ==
  IF ~loc.invalid /\ sz # 0 /\ file.opened /\ FileExists(files, file.name) /\ pos >= 0
  THEN SaveWrite(files, loc, file, pos,
                 Transcode(r.save_files[loc.file_idx].type, got, sz), sz)
  ELSE SaveResult(files, loc, got, FALSE)

SaveIn(st, r, files, lba, buffer, blksz, sz, block, loc) ==
  SaveAt(r, files, sz, loc, r.sd_image[loc.file_idx],
         lba * blksz - get_save_file_offset(st, loc.file_idx),
         BlockRead(buffer, block, sz))

n64_save_savedata(st, r, files, lba, buffer, blksz, sz, block) ==
  SaveIn(st, r, files, lba, buffer, blksz, sz, block,
         FindFile(st, r.mounted, lba * blksz, 0))

(***************************************************************************)
(* The inputs: knowledge-base files, ROM files and block requests.         *)
(***************************************************************************)
MaxLoads == 2
MaxWrites == 1
MaxCreateFail == 1
BufferSize == 5

Md5Line(key, tags) == [kind |-> "md5", key |-> key, ok |-> TRUE, tags |-> tags]

IdLine(pat, term, tags) ==
  [kind |-> "id", pat |-> pat, term |-> term, ok |-> TRUE, tags |-> tags]

\* N64-database_user.txt
UserDbLines ==
  << [kind |-> "other"],
     Md5Line("h1", <<"Sram32k", "CPAK", "ntsc">>),
     Md5Line("h1", <<"eeprom512">>),
     [kind |-> "md5", key |-> "h2", ok |-> FALSE, tags |-> <<>>],
     Md5Line("h2", <<"eeprom2k", "cic6102">>),
     IdLine(<<"N", "S", "M", "E", "0", "0">>, "ws", <<"flash128k", "tpak", "cic6105">>),
     IdLine(<<"N", "S">>, "ws", <<"eeprom2k">>) >>

\* N64-database.txt
BundledDbLines ==
  << Md5Line("h1", <<"eeprom2k">>),
     Md5Line("h3", <<"eeprom2k", "rpak", "CIC7102", "wide">>),
     Md5Line("h4", <<"sram96k", "cpak", "tpak", "rtc", "noepak", "bogus">>),
     IdLine(<<"N", "S", "M", "E", "0", "0">>, "ws", <<"sram32k">>),
     IdLine(<<"N", "_", "_", "P">>, "ws", <<"eeprom512", "cpak">>),
     IdLine(<<"J">>, "eol", <<>>) >>

\* The two files in the order of DB_FILE_NAMES (n64.cpp:633-636); either may
\* be missing from the card.
DbStates ==
  { << [readable |-> u, lines |-> UserDbLines],
       [readable |-> b, lines |-> BundledDbLines] >> : u \in BOOLEAN, b \in BOOLEAN }

\* What sscanf may find when it reads past the end of a line.
UbFields == {[ok |-> FALSE, tags |-> <<>>], [ok |-> TRUE, tags |-> <<"flash128k">>]}

RomNames == {<<"games", "a", "z64">>, <<"games", "b", "">>}
RomSizes == {0, 4095, 4096, 10000}
RomIndexes == {1, 2}
FullHashes == {"h4", "hx"}
EmptyHash == "d41d8cd9"

GameCodes ==
  {<<"N", "S", "M", "E">>, <<"N", "Z", "Z", "P">>, <<"N", "E", "D", "E">>,
   <<"J", "Z", "Z", "E">>, <<"#", "#", "#", "#">>, <<"N", "#", "M", "E">>}

NoControllers == <<0, 0, 0, 0>>

\* The fields of the first chunk the loader reads: the hash of the normalised
\* chunk, the game code at 0x3b, the revision at 0x3f, the controller bytes at
\* 0x34 and the two boot-code sums <<0x40-0x1000, 0x40-0xc00>>.
Headers ==
  { h \in [hdr : {"h1", "h2", "h3", "hx"}, code : GameCodes, rev : {0, 49},
           ctrl : {NoControllers, <<2, 1, 0, 255>>, <<3, 3, 128, 0>>},
           sums : {<<"11", "22">>, <<"a316adc55a", "22">>, <<"11", "a405397b05">>,
                   <<"a0f26f62fe", "a405397b05">>}] :
      /\ h.hdr # "hx" => h.code = <<"N", "S", "M", "E">> /\ h.rev = 0
      /\ h.ctrl # NoControllers => h.code[2] = "E"
      /\ h.rev # 0 => h.code[1] = "N" /\ h.code[2] \in {"E", "S"}
      /\ h.sums[1] # "11" /\ h.sums[2] # "22" => h.code = <<"N", "Z", "Z", "P">>
      /\ h.sums # <<"11", "22">> => h.code[1] # "J" /\ h.code[2] # "#" }

\* Block requests: block addresses at and around the region boundaries, and
\* what the transport delivers for a write (byte i of the block is 7 * i).
IoLbas == {0, 1, 64, 400}
BlockSizes == {512}
IoSizes == {0, 4, BufferSize}
SpiBlocks(sz) == {[i \in 1..sz |-> 7 * i]}

StatusOf(a, s, c, t) ==
  [o \in Opts |->
     CASE o = AUTODETECT_OPT -> a
       [] o = SAVE_TYPE_OPT -> s
       [] o = CPAK_OPT -> c
       [] o = TPAK_OPT -> t
       [] OTHER -> 0]

\* The options before the first load: as set by the user or left by a core.
DetectStatuses ==
  { StatusOf(a, p[1], p[2], p[3]) :
      a \in {AUTO_ON, AUTO_OFF}, p \in {<<0, 0, 0>>, <<3, 1, 1>>} }

\* Auto-detection off: the user's save type and pak options stand.
MountStatuses ==
  { StatusOf(AUTO_OFF, s, c, t) : s \in (0..5) \cup {7}, c \in 0..1, t \in 0..1 }

IoStatuses ==
  { StatusOf(AUTO_OFF, s, c, t) : s \in {0, 3}, c \in 0..1, t \in 0..1 }

\* The options as an earlier ROM and the user left them: every peripheral on,
\* a save type, a PAL region and chip, the controller modes pads and the
\* aspect option ar.
LeftBy(a, pads, ar) ==
  [o \in Opts |->
     CASE o = AUTODETECT_OPT -> a
       [] o = SAVE_TYPE_OPT -> MT_FLASH_128k
       [] o = SYS_TYPE_OPT -> SYS_PAL
       [] o = CIC_TYPE_OPT -> CIC_NUS_7105
       [] o = AR_TYPE_OPT -> ar
       [] o = RESET_OPT -> 0
       [] o \in {CONTROLLER_OPTS[i] : i \in 1..4} ->
            pads[CHOOSE i \in 1..4 : CONTROLLER_OPTS[i] = o]
       [] OTHER -> 1]

PadModes ==
  {<<SNAC, SNAC, SNAC, SNAC>>, <<N64_PAD_WITH_RPAK, SNAC, N64_PAD, SNAC>>,
   <<SNAC, UNPLUGGED, SNAC, N64_PAD_WITH_CPAK>>}

ConfigStatuses ==
  { LeftBy(a, pads, ar) :
      a \in {AUTO_ON, AUTO_OFF}, pads \in PadModes, ar \in {AR_FULL, AR_CUSTOM_1} }

\* A ROM no knowledge-base line and no heuristic recognises.
PlainHeaders ==
  { [hdr |-> "hx", code |-> <<"#", "#", "#", "#">>, rev |-> 0, ctrl |-> NoControllers,
     sums |-> <<"11", "22">>] }

AllReadable == { d \in DbStates : d[1].readable /\ d[2].readable }

UserFile(size) ==
  [size |-> size, fill |-> "user", k |-> 0, n |-> 0, rev |-> FALSE, over |-> NoOverlay]

\* The save directory before the first load of SpecMount: it holds a legacy
\* combined save file of ROM "a" and nothing of ROM "b"; in the second
\* directory ROM "a" also has an SRAM file and a first controller-pak file of
\* the user's.
InitFiles ==
  { (<<"a", 0, ".sav">> :> UserFile(33280)),
    (<<"a", 0, ".sav">> :> UserFile(33280)) @@ (<<"a", 0, ".sra">> :> UserFile(32768))
      @@ (<<"a", 1, ".cpk">> :> UserFile(32768)) }

(***************************************************************************)
(* State.  status, old_ar, mounted_save_files, save_files are the statics  *)
(* of n64.cpp; sd_image and fs are the host's image slots and files;       *)
(* pc .. cpak_left are the position and the locals of a running            *)
(* n64_rom_tx; download, ret, info are what it reports; buffer and io      *)
(* belong to the block requests.  ran, loads, fails and last_wr record     *)
(* history: the strategies run in this load, the loads begun, the file     *)
(* creations refused and the last block written.  rom is the ROM file of   *)
(* SpecFormat, [order, bytes]: its canonical (big-endian) bytes and the     *)
(* order it is stored in; buf is the chunk buffer and rom_format the class *)
(* detectRomFormat gave the file.  The other specifications keep the       *)
(* content of the ROM abstract (a header of Headers) and leave these as    *)
(* they start.                                                             *)
(***************************************************************************)
VARIABLES status, old_ar, mounted_save_files, save_files, sd_image, fs,
          pc, name, data_size, data_left, md5_hex, rom_settings_detected,
          cart_id, controller_settings, bootcode_sums, do_reset, cpak_left,
          download, ret, info, buffer, io, last_wr, nio, dbs, ran, loads, fails,
          rom, buf, rom_format

vars == <<status, old_ar, mounted_save_files, save_files, sd_image, fs,
          pc, name, data_size, data_left, md5_hex, rom_settings_detected,
          cart_id, controller_settings, bootcode_sums, do_reset, cpak_left,
          download, ret, info, buffer, io, last_wr, nio, dbs, ran, loads, fails,
          rom, buf, rom_format>>

config == <<status, old_ar>>
registry == <<mounted_save_files, save_files, sd_image>>
locals == <<name, data_size, data_left, md5_hex, rom_settings_detected, cart_id,
            controller_settings, bootcode_sums, do_reset, cpak_left>>
blockio == <<buffer, io, last_wr, nio>>
romio == <<rom, buf, rom_format>>

Registry ==
  [save_files |-> save_files, sd_image |-> sd_image, mounted |-> mounted_save_files]

NoName == <<"", "", "">>
NoIo == [op |-> "none"]
NoWrite == [lba |-> -1, sz |-> 0, block |-> <<>>, file_idx |-> 0, written |-> FALSE]

\* An entry of ran: the strategy s that ran, its outcome det, the
\* <<file, line>> of the record it matched (<<0, 0>> for none; for the
\* boot-chip heuristic the number of table comparisons) and the options it
\* wrote.
Ran(s, det, line, wrote) == [s |-> s, det |-> det, line |-> line, wrote |-> wrote]

\* The locals of n64_rom_tx as declared (n64.cpp:1097-1105).
InitLocals ==
  /\ data_left = 0
  /\ data_size = 0
  /\ name = NoName
  /\ md5_hex = ""
  /\ rom_settings_detected = 0
  /\ cart_id = <<NUL, NUL, NUL, NUL, "0", "0">>
  /\ controller_settings = NoControllers
  /\ bootcode_sums = <<"0", "0">>
  /\ do_reset = FALSE
  /\ cpak_left = 0

\* On return the locals go out of scope.
Return ==
  /\ pc' = "idle"
  /\ data_left' = 0
  /\ data_size' = 0
  /\ name' = NoName
  /\ md5_hex' = ""
  /\ rom_settings_detected' = 0
  /\ cart_id' = <<NUL, NUL, NUL, NUL, "0", "0">>
  /\ controller_settings' = NoControllers
  /\ bootcode_sums' = <<"0", "0">>
  /\ do_reset' = FALSE
  /\ cpak_left' = 0

InitFrom(statuses, oars, files, dbstates) ==
  /\ status \in statuses
  /\ dbs \in dbstates
  /\ old_ar \in oars
  /\ mounted_save_files = 0
  /\ save_files = [i \in 0..(MAX_SAVE_FILES - 1) |-> UnmountedSaveFile]
  /\ sd_image = [i \in 0..(MAX_SAVE_FILES - 1) |-> ClosedImage]
  /\ fs \in files
  /\ pc = "idle"
  /\ InitLocals
  /\ download = 0
  /\ ret = 1
  /\ info = <<>>
  /\ buffer = Zeros(BufferSize)
  /\ io = NoIo
  /\ last_wr = NoWrite
  /\ nio = 0
  /\ ran = <<>>
  /\ loads = 0
  /\ fails = 0
  /\ rom = [order |-> DF_UNKNOWN, bytes |-> <<>>]
  /\ buf = <<>>
  /\ rom_format = DF_UNKNOWN

\* old_ar as its initialiser leaves it (n64.cpp:104).
InitWith(statuses, files, dbstates) == InitFrom(statuses, {AR_UNKNOWN}, files, dbstates)

Init == InitWith(DetectStatuses, {NoOverlay}, DbStates)

(***************************************************************************)
(* n64_rom_tx (n64.cpp:1046-1321), one action per stretch of it.           *)
(***************************************************************************)
\* FileOpen fails (n64.cpp:1050).
RomTxOpenFails ==
  /\ pc = "idle"
  /\ ret' = 0
  /\ UNCHANGED <<config, registry, fs, pc, locals, download, info, blockio, ran,
                 loads, dbs, romio, fails>>

\* A file of another system: sent as it is (n64.cpp:1066-1086).
RomTxOther ==
  /\ pc = "idle"
  /\ \E idx \in RomIndexes : (idx % 64) = 2
  /\ download' = 0
  /\ ret' = 1
  /\ UNCHANGED <<config, registry, fs, pc, locals, info, blockio, ran, loads, dbs, romio, fails>>

\* An N64 file: the previous regions are unmounted and the locals set up
\* (n64.cpp:1050-1108).
RomTxBegin(names, sizes) ==
  /\ pc = "idle"
  /\ loads < MaxLoads
  /\ \E n \in names, size \in sizes, idx \in RomIndexes :
       /\ (idx % 64) # 2
       /\ name' = n
       /\ data_size' = size
       /\ data_left' = size
       /\ pc' = IF size = 0 THEN "file_md5" ELSE "first_chunk"
  /\ LET u == unmount_all_save_files(save_files, sd_image, mounted_save_files)
     IN  /\ save_files' = u.save_files
         /\ sd_image' = u.sd_image
         /\ mounted_save_files' = u.mounted
  /\ download' = 1
  /\ md5_hex' = ""
  /\ rom_settings_detected' = 0
  /\ cart_id' = <<NUL, NUL, NUL, NUL, "0", "0">>
  /\ bootcode_sums' = <<"0", "0">>
  /\ ran' = <<>>
  /\ loads' = loads + 1
  /\ io' = NoIo
  /\ last_wr' = NoWrite
  /\ UNCHANGED <<config, fs, controller_settings, do_reset, cpak_left, ret, info,
                 buffer, nio, fails, dbs, romio>>

\* The first chunk is shorter than 4096 bytes (n64.cpp:1116-1125).
FirstChunkTooShort ==
  /\ pc = "first_chunk"
  /\ Min(data_left, ROM_CHUNK) < 4096
  /\ info' = <<"Invalid ROM!">>
  /\ download' = 0
  /\ ret' = 0
  /\ Return
  /\ UNCHANGED <<config, registry, fs, blockio, ran, loads, dbs, romio, fails>>

\* sprintf("%02X") of the revision byte, after the four characters of the game
\* code with '?' for what is not alphanumeric; all NUL when all four are '?'
\* (n64.cpp:1165-1181).
MakeCartId(code, rev) ==
  LET c == [i \in 1..4 |-> IF isalnum(code[i]) THEN code[i] ELSE "?"]
  IN  IF c = <<"?", "?", "?", "?">> THEN <<NUL, NUL, NUL, NUL, NUL, NUL>>
      ELSE c \o <<HexDigits[(rev \div 16) + 1], HexDigits[(rev % 16) + 1]>>

\* The first chunk: the header-hash lookup and the header fields
\* (n64.cpp:1110-1189).
FirstChunk(headers) ==
  /\ pc = "first_chunk"
  /\ Min(data_left, ROM_CHUNK) >= 4096
  /\ \E h \in headers :
       \E r \in {detect_rom_settings_in_dbs_with_md5(status, old_ar, h.hdr, dbs)} :
           /\ md5_hex' = h.hdr
           /\ status' = r.st
           /\ old_ar' = r.old_ar
           /\ rom_settings_detected' = r.det
           /\ ran' = Append(ran, Ran("hdr", r.det, r.line, r.wrote))
           /\ controller_settings' = h.ctrl
           /\ bootcode_sums' = h.sums
           /\ cart_id' = MakeCartId(h.code, h.rev)
  /\ data_left' = data_left - Min(data_left, ROM_CHUNK)
  /\ pc' = IF data_left' = 0 THEN "file_md5" ELSE "chunk"
  /\ UNCHANGED <<registry, fs, name, data_size, do_reset, cpak_left, download, ret,
                 info, blockio, loads, dbs, romio, fails>>

\* A later chunk: normalised, hashed and sent (n64.cpp:1110-1189).
NextChunk ==
  /\ pc = "chunk"
  /\ data_left' = data_left - Min(data_left, ROM_CHUNK)
  /\ pc' = IF data_left' = 0 THEN "file_md5" ELSE "chunk"
  /\ UNCHANGED <<config, registry, fs, name, data_size, md5_hex,
                 rom_settings_detected, cart_id, controller_settings, bootcode_sums,
                 do_reset, cpak_left, download, ret, info, blockio, ran, loads, dbs, romio, fails>>

\* The hash of the whole file: that of the first chunk when there is no other.
FileHashes ==
  IF data_size = 0 THEN {EmptyHash}
  ELSE IF data_size <= ROM_CHUNK THEN {md5_hex}
  ELSE FullHashes

\* The full-content-hash lookup (n64.cpp:1191-1198).
FileMd5Lookup ==
  /\ pc = "file_md5"
  /\ \E full \in FileHashes :
       /\ md5_hex' = full
       /\ IF rom_settings_detected = 0
          THEN \E r \in {detect_rom_settings_in_dbs_with_md5(status, old_ar, full, dbs)} :
                   /\ status' = r.st
                   /\ old_ar' = r.old_ar
                   /\ rom_settings_detected' = r.det
                   /\ ran' = Append(ran, Ran("file", r.det, r.line, r.wrote))
          ELSE UNCHANGED <<config, rom_settings_detected, ran>>
  /\ pc' = IF rom_settings_detected' = 0 THEN "cart_id" ELSE "complement"
  /\ UNCHANGED <<registry, fs, name, data_size, data_left, cart_id,
                 controller_settings, bootcode_sums, do_reset, cpak_left, download,
                 ret, info, blockio, loads, dbs, romio, fails>>

\* The cart-code lookup (n64.cpp:1201-1203).
CartIdLookup ==
  /\ pc = "cart_id"
  /\ \E ub \in UbFields :
       \E r \in {detect_rom_settings_in_dbs_with_cartid(status, old_ar, cart_id, dbs, ub)} :
           /\ status' = r.st
           /\ old_ar' = r.old_ar
           /\ rom_settings_detected' = r.det
           /\ ran' = Append(ran, Ran("cartid", r.det, r.line, r.wrote))
  /\ pc' = IF rom_settings_detected' = 0 THEN "homebrew" ELSE "boot_chip"
  /\ UNCHANGED <<registry, fs, name, data_size, data_left, md5_hex, cart_id,
                 controller_settings, bootcode_sums, do_reset, cpak_left, download,
                 ret, info, blockio, loads, dbs, romio, fails>>

\* The defaults without the write that turns the transfer pak off.
ApplyDefaults_KeepsTpak(st, oar) ==
  IF ~is_auto(st) THEN [st |-> st, old_ar |-> oar]
  ELSE LET s0 == IF oar # AR_UNKNOWN THEN user_io_status_set(st, AR_TYPE_OPT, oar) ELSE st
           s1 == user_io_status_set(s0, NO_EPAK_OPT, 0)
           s2 == user_io_status_set(s1, CPAK_OPT, 0)
           s3 == user_io_status_set(s2, RPAK_OPT, 0)
           s5 == user_io_status_set(s3, RTC_OPT, 0)
       IN  [st |-> set_cart_save_type(s5, MT_NONE), old_ar |-> AR_UNKNOWN]

\* The defaults written when no strategy matched (n64.cpp:1210-1222).
ApplyDefaults(st, oar) ==
  IF ~is_auto(st) THEN [st |-> st, old_ar |-> oar]
  ELSE LET s0 == IF oar # AR_UNKNOWN THEN user_io_status_set(st, AR_TYPE_OPT, oar) ELSE st
           s1 == user_io_status_set(s0, NO_EPAK_OPT, 0)
           s2 == user_io_status_set(s1, CPAK_OPT, 0)
           s3 == user_io_status_set(s2, RPAK_OPT, 0)
           s4 == user_io_status_set(s3, TPAK_OPT, 0)
           s5 == user_io_status_set(s4, RTC_OPT, 0)
       IN  [st |-> set_cart_save_type(s5, MT_NONE), old_ar |-> AR_UNKNOWN]

\* The options the defaults write (n64.cpp:1210-1222).
DefaultWrites(st, oar) ==
  IF ~is_auto(st) THEN {}
  ELSE {NO_EPAK_OPT, CPAK_OPT, RPAK_OPT, TPAK_OPT, RTC_OPT, SAVE_TYPE_OPT}
       \cup (IF oar # AR_UNKNOWN THEN {AR_TYPE_OPT} ELSE {})

\* The homebrew header, or else the defaults (n64.cpp:1204-1224).
HomebrewHeader ==
  /\ pc = "homebrew"
  /\ LET r == detect_homebrew_header(status, controller_settings, cart_id)
         d == ApplyDefaults(status, old_ar)
     IN  /\ status' = IF r.ret THEN r.st ELSE d.st
         /\ old_ar' = IF r.ret THEN old_ar ELSE d.old_ar
         /\ rom_settings_detected' = IF r.ret THEN 2 ELSE rom_settings_detected
         /\ ran' = Append(ran, Ran("homebrew", IF r.ret THEN 2 ELSE 0, <<0, 0>>,
                             IF r.ret THEN HomebrewWrites(status, controller_settings)
                             ELSE DefaultWrites(status, old_ar)))
  /\ pc' = "boot_chip"
  /\ UNCHANGED <<registry, fs, name, data_size, data_left, md5_hex, cart_id,
                 controller_settings, bootcode_sums, do_reset, cpak_left, download,
                 ret, info, blockio, loads, dbs, romio, fails>>

\* The heuristic called only when nothing was detected.
NeedsBootChip_OnlyUndetected(branch, detected) ==
  branch = "boot_chip" /\ detected = 0

\* Whether the boot-chip heuristic is called: in the branch that ran the
\* cart-code lookup for outcomes 0 and 2, in the other for outcome 2
\* (n64.cpp:1226-1236).
NeedsBootChip(branch, detected) ==
  IF branch = "boot_chip" THEN detected = 0 \/ detected = 2 ELSE detected = 2

\* The boot-chip heuristic and the outcome it completes (n64.cpp:1226-1236).
\* Nothing after it reads the hash, the cart code, the controller bytes or the
\* boot-code sums: the model drops them here.
BootChip ==
  /\ pc \in {"boot_chip", "complement"}
  /\ IF NeedsBootChip(pc, rom_settings_detected)
     THEN LET r == detect_rom_settings_from_first_chunk(status, cart_id[4], bootcode_sums)
          IN  /\ status' = r.st
              /\ rom_settings_detected' =
                   IF ~r.ret THEN rom_settings_detected
                   ELSE IF pc = "boot_chip"
                   THEN (IF rom_settings_detected = 0 THEN 1 ELSE 3)
                   ELSE 3
              /\ ran' = Append(ran, Ran("cic", BoolToInt(r.ret), <<0, r.tries>>,
                                 IF is_auto(status) THEN {SYS_TYPE_OPT, CIC_TYPE_OPT}
                                 ELSE {}))
     ELSE UNCHANGED <<status, rom_settings_detected, ran>>
  /\ pc' = "mount_save"
  /\ md5_hex' = ""
  /\ cart_id' = <<NUL, NUL, NUL, NUL, "0", "0">>
  /\ controller_settings' = NoControllers
  /\ bootcode_sums' = <<"0", "0">>
  /\ UNCHANGED <<old_ar, registry, fs, name, data_size, data_left, do_reset, cpak_left,
                 download, ret, info, blockio, loads, dbs, romio, fails>>

\* One call of mount_save_file from n64_rom_tx: fopen may refuse to create the
\* file when it is missing.
MountRegion(type, disk) ==
  \E can_create \in disk :
    /\ ~can_create =>
         /\ fails < MaxCreateFail
         /\ ~FileExists(fs, SavePath(name, type, status, mounted_save_files))
    /\ LET m == mount_save_file(fs, status, Registry, name, type, can_create)
       IN  /\ fs' = m.fs
           /\ save_files' = m.save_files
           /\ sd_image' = m.sd_image
           /\ mounted_save_files' = m.mounted
           /\ do_reset' = (do_reset \/ m.is_new)
    /\ fails' = IF can_create THEN fails ELSE fails + 1

\* The save-type region (n64.cpp:1241-1248).
MountSave(disk) ==
  /\ pc = "mount_save"
  /\ IF get_cart_save_type(status) # MT_NONE
     THEN MountRegion(get_cart_save_type(status), disk)
     ELSE UNCHANGED <<registry, fs, do_reset, fails>>
  /\ pc' = "mount_pak"
  /\ UNCHANGED <<config, name, data_size, data_left, md5_hex, rom_settings_detected,
                 cart_id, controller_settings, bootcode_sums, cpak_left, download,
                 ret, info, blockio, ran, loads, dbs, romio>>

\* The controller pak before the transfer pak.
FirstPakType_CpakFirst(st) ==
  IF user_io_status_get(st, CPAK_OPT) # 0 THEN MT_CPAK ELSE MT_TPAK

\* The first pak region: transfer pak before controller pak (n64.cpp:1250-1258).
FirstPakType(st) ==
  IF user_io_status_get(st, TPAK_OPT) # 0 THEN MT_TPAK ELSE MT_CPAK

MountPak(disk) ==
  /\ pc = "mount_pak"
  /\ LET use_cpak == user_io_status_get(status, CPAK_OPT) # 0
         use_tpak == user_io_status_get(status, TPAK_OPT) # 0
     IN  /\ IF use_tpak \/ use_cpak
            THEN MountRegion(FirstPakType(status), disk)
            ELSE UNCHANGED <<registry, fs, do_reset, fails>>
         /\ pc' = IF use_cpak THEN "mount_cpak" ELSE "end_tx"
         /\ cpak_left' = IF use_cpak THEN 3 ELSE 0
  /\ UNCHANGED <<config, name, data_size, data_left, md5_hex, rom_settings_detected,
                 cart_id, controller_settings, bootcode_sums, download, ret, info,
                 blockio, ran, loads, dbs, romio>>

\* One of the three further controller-pak regions (n64.cpp:1260-1264).
MountCpak(disk) ==
  /\ pc = "mount_cpak"
  /\ MountRegion(MT_CPAK, disk)
  /\ cpak_left' = cpak_left - 1
  /\ pc' = IF cpak_left' = 0 THEN "end_tx" ELSE "mount_cpak"
  /\ UNCHANGED <<config, name, data_size, data_left, md5_hex, rom_settings_detected,
                 cart_id, controller_settings, bootcode_sums, download, ret, info,
                 blockio, ran, loads, dbs, romio>>

\* The end of the transfer is signalled (n64.cpp:1266-1269).
EndTransfer ==
  /\ pc = "end_tx"
  /\ download' = 0
  /\ pc' = IF do_reset THEN "reset_on" ELSE "finish"
  /\ UNCHANGED <<config, registry, fs, locals, ret, info, blockio, ran, loads, dbs, romio, fails>>

\* The reset pulse (n64.cpp:1272-1276).
ResetAssert ==
  /\ pc = "reset_on"
  /\ status' = user_io_status_set(status, RESET_OPT, 1)
  /\ pc' = "reset_off"
  /\ UNCHANGED <<old_ar, registry, fs, locals, download, ret, info, blockio, ran,
                 loads, dbs, romio, fails>>

ResetDeassert ==
  /\ pc = "reset_off"
  /\ status' = user_io_status_set(status, RESET_OPT, 0)
  /\ pc' = "finish"
  /\ UNCHANGED <<old_ar, registry, fs, locals, download, ret, info, blockio, ran,
                 loads, dbs, romio, fails>>

\* The summary shown when auto-detect is on, and the return (n64.cpp:1278-1320).
Summary(detected) ==
  <<"Auto-detect:",
    IF detected % 2 = 0 THEN "Unknown Region/CIC" ELSE "Region",
    IF (detected \div 2) % 2 = 0 THEN "ROM missing from database." ELSE "Peripherals">>

Finish ==
  /\ pc = "finish"
  /\ info' = IF is_auto(status) THEN Summary(rom_settings_detected) ELSE info
  /\ ret' = 1
  /\ ran' = <<>>
  /\ Return
  /\ UNCHANGED <<config, registry, fs, download, blockio, loads, dbs, romio, fails>>

(***************************************************************************)
(* Block requests of the core, served between loads.                       *)
(***************************************************************************)
LoadSavedata ==
  /\ pc = "idle"
  /\ \E lba \in IoLbas, blksz \in BlockSizes, sz \in IoSizes :
       \E r \in {n64_load_savedata(status, Registry, fs, lba, buffer, blksz, sz)} :
           /\ buffer' = r.buffer
           /\ io' = [op |-> "rd", lba |-> lba, blksz |-> blksz, sz |-> sz,
                     invalid |-> r.invalid, file_idx |-> r.file_idx,
                     file_io |-> r.file_read, sent |-> r.sent, taken |-> 0,
                     buffer_lba |-> r.buffer_lba]
  /\ UNCHANGED <<config, registry, fs, pc, locals, download, ret, info, last_wr, nio,
                 ran, loads, dbs, romio, fails>>

SaveSavedata ==
  /\ pc = "idle"
  /\ nio < MaxWrites
  /\ \E lba \in IoLbas, blksz \in BlockSizes, sz \in IoSizes :
       \E block \in SpiBlocks(sz) :
         \E r \in {n64_save_savedata(status, Registry, fs, lba, buffer, blksz, sz, block)} :
             /\ buffer' = r.buffer
             /\ fs' = r.fs
             /\ io' = [op |-> "wr", lba |-> lba, blksz |-> blksz, sz |-> sz,
                       invalid |-> r.invalid, file_idx |-> r.file_idx,
                       file_io |-> r.file_written, sent |-> <<>>, taken |-> r.taken,
                       buffer_lba |-> r.buffer_lba]
             /\ last_wr' = [lba |-> lba, sz |-> sz, block |-> block,
                            file_idx |-> r.file_idx, written |-> r.file_written]
  /\ nio' = nio + 1
  /\ UNCHANGED <<config, registry, pc, locals, download, ret, info, ran, loads, dbs, romio, fails>>

(***************************************************************************)
(* Spec: ROM loads with every header, knowledge-base state and ROM size,   *)
(* on a disk that accepts new files.                                       *)
(***************************************************************************)
Next ==
  \/ RomTxOpenFails
  \/ RomTxOther
  \/ RomTxBegin({<<"games", "a", "z64">>}, RomSizes)
  \/ FirstChunkTooShort
  \/ FirstChunk(Headers)
  \/ NextChunk
  \/ FileMd5Lookup
  \/ CartIdLookup
  \/ HomebrewHeader
  \/ BootChip
  \/ MountSave({TRUE})
  \/ MountPak({TRUE})
  \/ MountCpak({TRUE})
  \/ EndTransfer
  \/ ResetAssert
  \/ ResetDeassert
  \/ Finish

Spec == Init /\ [][Next]_vars

(***************************************************************************)
(* SpecConfig: one load of every ROM over the options an earlier ROM left, *)
(* with and without a saved aspect ratio, with both knowledge-base files   *)
(* on the card or both missing.                                            *)
(***************************************************************************)
ConfigLoads == 1

InitConfig ==
  InitFrom(ConfigStatuses, {AR_UNKNOWN, AR_CUSTOM_2}, {NoOverlay},
           {d \in DbStates : d[1].readable = d[2].readable})

NextConfig ==
  \/ (loads < ConfigLoads /\ RomTxBegin({<<"games", "a", "z64">>}, {ROM_CHUNK, 10000}))
  \/ FirstChunk(Headers)
  \/ NextChunk
  \/ FileMd5Lookup
  \/ CartIdLookup
  \/ HomebrewHeader
  \/ BootChip
  \/ MountSave({TRUE})
  \/ MountPak({TRUE})
  \/ MountCpak({TRUE})
  \/ EndTransfer
  \/ ResetAssert
  \/ ResetDeassert
  \/ Finish

SpecConfig == InitConfig /\ [][NextConfig]_vars

(***************************************************************************)
(* SpecMount: loads of unrecognised ROMs with auto-detection off, for      *)
(* every save type and pak option, on a disk that may refuse to create a   *)
(* file.                                                                   *)
(***************************************************************************)
InitMount == InitWith(MountStatuses, InitFiles, AllReadable)

NextMount ==
  \/ RomTxBegin(RomNames, {ROM_CHUNK})
  \/ FirstChunk(PlainHeaders)
  \/ FileMd5Lookup
  \/ CartIdLookup
  \/ HomebrewHeader
  \/ BootChip
  \/ MountSave(BOOLEAN)
  \/ MountPak(BOOLEAN)
  \/ MountCpak(BOOLEAN)
  \/ EndTransfer
  \/ ResetAssert
  \/ ResetDeassert
  \/ Finish

SpecMount == InitMount /\ [][NextMount]_vars

(***************************************************************************)
(* SpecIo: the same loads for fewer save types, followed by the core's     *)
(* block requests.                                                         *)
(***************************************************************************)
InitIo == InitWith(IoStatuses, {NoOverlay}, AllReadable)

NextIo ==
  \/ (io = NoIo /\ RomTxBegin({<<"games", "a", "z64">>}, {ROM_CHUNK}))
  \/ FirstChunk(PlainHeaders)
  \/ FileMd5Lookup
  \/ CartIdLookup
  \/ HomebrewHeader
  \/ BootChip
  \/ MountSave(BOOLEAN)
  \/ MountPak(BOOLEAN)
  \/ MountCpak(BOOLEAN)
  \/ EndTransfer
  \/ ResetAssert
  \/ ResetDeassert
  \/ Finish
  \/ LoadSavedata
  \/ SaveSavedata

SpecIo == InitIo /\ [][NextIo]_vars

(***************************************************************************)
(* SpecTags: parse_and_apply_db_tags applied to one tag list after another *)
(* between loads, with the aspect option changed from the menu in between. *)
(* ran logs the applications: det is 1 for a wide list, line is            *)
(* <<aspect option, saved ratio>> before the application.                  *)
(***************************************************************************)
MaxApplies == 3

TagLists ==
  {<<>>, <<"wide">>, <<"eeprom2k", "rpak", "CIC7102", "wide">>,
   <<"flash128k", "cpak", "pal">>}

InitTags ==
  InitFrom({LeftBy(a, <<N64_PAD, SNAC, N64_PAD, SNAC>>, ar) :
              a \in {AUTO_ON, AUTO_OFF}, ar \in AR_ORIGINAL..AR_CUSTOM_2},
           {AR_UNKNOWN, AR_ORIGINAL, AR_CUSTOM_2}, {NoOverlay}, AllReadable)

\* One call of parse_and_apply_db_tags (n64.cpp:432-531) on a tag list of
\* lists, the max-th call at most; the log entry also keeps the tag list.
ApplyTags(lists, max) ==
  /\ pc = "idle"
  /\ Len(ran) < max
  /\ \E tags \in lists :
       \E r \in {parse_and_apply_db_tags(status, old_ar, tags)} :
         /\ status' = r.st
         /\ old_ar' = r.old_ar
         /\ ran' = Append(ran, [tags |-> tags] @@
                                Ran("tags", BoolToInt(ParseTags(tags).wide),
                                    <<user_io_status_get(status, AR_TYPE_OPT), old_ar>>,
                                    WrittenByTags(status, old_ar, ParseTags(tags))))
  /\ UNCHANGED <<registry, fs, pc, locals, download, ret, info, blockio, dbs, romio,
                 loads, fails>>

\* The user picks another aspect ratio in the menu: the status word changes
\* outside this file.
OsdAspect ==
  /\ pc = "idle"
  /\ Len(ran) < MaxApplies
  /\ \E ar \in (AR_ORIGINAL..AR_CUSTOM_2) \ {user_io_status_get(status, AR_TYPE_OPT)} :
       status' = user_io_status_set(status, AR_TYPE_OPT, ar)
  /\ ran' = Append(ran, Ran("osd", 0, <<user_io_status_get(status, AR_TYPE_OPT), old_ar>>,
                            {AR_TYPE_OPT}))
  /\ UNCHANGED <<old_ar, registry, fs, pc, locals, download, ret, info, blockio,
                 dbs, romio, loads, fails>>

NextTags == ApplyTags(TagLists, MaxApplies) \/ OsdAspect

SpecTags == InitTags /\ [][NextTags]_vars

(***************************************************************************)
(* SpecParse: parse_and_apply_db_tags applied to tag lists that put save   *)
(* sizes, paks and unknown tokens in every order, and every boot-chip      *)
(* token alone, before and after a region token.                           *)
(***************************************************************************)
MaxParses == 1

ParseLists ==
  UNION { [1..n -> {"eeprom512", "eeprom2k", "sram32k", "sram96k", "flash128k",
                    "cpak", "rpak", "tpak", "bogus"}] : n \in 0..2 }
  \cup {<<"tpak", "bogus", "rpak", "flash128k", "Sram32k">>, <<"CPAK", "eeprom2k", "tpak">>}
  \cup {<<c[1]>> : c \in CicTags}
  \cup {<<c[1], r>> : c \in CicTags, r \in {"pal", "ntsc"}}
  \cup {<<r, c[1]>> : c \in CicTags, r \in {"pal", "ntsc"}}

\* The wide-display slot is empty: the lists of SpecParse do not use it.
InitParse == InitTags /\ old_ar = AR_UNKNOWN

SpecParse == InitParse /\ [][ApplyTags(ParseLists, MaxParses)]_vars

(***************************************************************************)
(* SpecFormat: the chunk loop of n64_rom_tx (n64.cpp:1110-1131) on ROM     *)
(* files of a few words, read through a chunk buffer of ChunkWords words   *)
(* in place of the 4096 bytes of buf.  A ROM is its boot vector followed   *)
(* by up to MaxWords - 1 words, stored big-endian, byte-swapped or         *)
(* little-endian.                                                          *)
(***************************************************************************)
ChunkWords == 2
MaxWords == 3

\* The bytes of the file that stores the canonical bytes in an order: the
\* byte at 0-based offset o is the canonical byte of the other half of its
\* pair (byte-swapped) or of the mirrored place of its word (little-endian).
StoredAs(bytes, order) ==
  [i \in 1..Len(bytes) |->
     IF order = DF_BYTE_SWAPPED THEN bytes[2 * ((i - 1) \div 2) + 2 - ((i - 1) % 2)]
     ELSE IF order = DF_LITTLE_ENDIAN THEN bytes[WordReversed(i - 1) + 1]
     ELSE bytes[i]]

\* The boot vectors of a cartridge, a 64DD image and the malformed homebrew
\* variant, each followed by words that look like boot vectors of the other
\* orders or like nothing.
FormatRoms ==
  { [order |-> o,
     bytes |-> [i \in 1..(4 * (Len(w) + 1)) |->
                  IF i <= 4 THEN v[i] ELSE w[((i - 5) \div 4) + 1][((i - 5) % 4) + 1]]] :
      o \in {DF_BIG_ENDIAN, DF_BYTE_SWAPPED, DF_LITTLE_ENDIAN},
      v \in {<<128, 55, 18, 64>>, <<128, 39, 7, 64>>, <<128, 55, 18, 65>>},
      w \in UNION { [1..n -> {<<1, 2, 3, 4>>, <<64, 18, 55, 128>>, <<55, 128, 0, 9>>}] :
                      n \in 0..(MaxWords - 1) } }

\* The file is opened and its size taken (n64.cpp:1050-1105).
FormatBegin ==
  /\ pc = "idle"
  /\ rom' \in FormatRoms
  /\ data_size' = Len(rom'.bytes)
  /\ data_left' = Len(rom'.bytes)
  /\ pc' = "first_chunk"
  /\ UNCHANGED <<config, registry, fs, name, md5_hex, rom_settings_detected, cart_id,
                 controller_settings, bootcode_sums, do_reset, cpak_left, download,
                 ret, info, blockio, dbs, ran, loads, fails, buf, rom_format>>

\* One pass of the loop: the chunk is read, the first one classified, and
\* every one normalised with that class (n64.cpp:1110-1131).
ReadChunk ==
  /\ pc \in {"first_chunk", "chunk"}
  /\ LET chunk == Min(data_left, 4 * ChunkWords)
         off == data_size - data_left
         read == SubSeq(StoredAs(rom.bytes, rom.order), off + 1, off + chunk)
     IN  /\ rom_format' = IF pc = "first_chunk" THEN detectRomFormat(read) ELSE rom_format
         /\ buf' = normalizeData(read, chunk, rom_format')
         /\ data_left' = data_left - chunk
  /\ pc' = IF data_left' = 0 THEN "file_md5" ELSE "chunk"
  /\ UNCHANGED <<config, registry, fs, name, data_size, md5_hex, rom_settings_detected,
                 cart_id, controller_settings, bootcode_sums, do_reset, cpak_left,
                 download, ret, info, blockio, dbs, ran, loads, fails, rom>>

NextFormat == FormatBegin \/ ReadChunk

SpecFormat ==
  InitWith({StatusOf(AUTO_ON, 0, 0, 0)}, {NoOverlay}, AllReadable) /\ [][NextFormat]_vars

(***************************************************************************)
(* The claims.                                                             *)
(***************************************************************************)
\* A load has completed and none is running (every load of SpecMount and
\* SpecIo runs to its end).
AfterLoad == pc = "idle" /\ loads > 0

\* The sum of the fixed sizes of the regions in slots 0 .. n - 1.
RECURSIVE TotalSize(_, _)
TotalSize(sfiles, n) ==
  IF n = 0 THEN 0 ELSE TotalSize(sfiles, n - 1) + get_save_size(sfiles[n - 1].type)

RegionsEnd == TotalSize(save_files, mounted_save_files)

\* The types of the mounted regions in slot order.
MountedTypes == [i \in 1..mounted_save_files |-> save_files[i - 1].type]

\* The regions a load mounts for the options st: the save-type region, the
\* first pak region, three further controller paks.
ExpectedTypes(st) ==
  (IF get_cart_save_type(st) # MT_NONE THEN <<get_cart_save_type(st)>> ELSE <<>>)
  \o (IF user_io_status_get(st, TPAK_OPT) # 0 THEN <<MT_TPAK>>
      ELSE IF user_io_status_get(st, CPAK_OPT) # 0 THEN <<MT_CPAK>>
      ELSE <<>>)
  \o (IF user_io_status_get(st, CPAK_OPT) # 0 THEN <<MT_CPAK, MT_CPAK, MT_CPAK>>
      ELSE <<>>)

\* C1: after a completed load get_save_file_offset(0) is 0 and, for every
\* mounted slot i, get_save_file_offset(i + 1) - get_save_file_offset(i) is the
\* fixed size of the region registered in slot i, so that the regions in slot
\* order partition [0, total size) -- for every save type and pak option.
C1_OffsetsPartition ==
  AfterLoad =>
    /\ get_save_file_offset(status, 0) = 0
    /\ \A i \in 0..(mounted_save_files - 1) :
         get_save_file_offset(status, i + 1) - get_save_file_offset(status, i)
           = get_save_size(save_files[i].type)
    /\ get_save_file_offset(status, mounted_save_files) = RegionsEnd

\* A load has mounted five regions of three different sizes.
C1_Witness ==
  /\ AfterLoad
  /\ mounted_save_files = 5
  /\ save_files[0].type = MT_SRAM_96k
  /\ save_files[1].type = MT_TPAK
  /\ save_files[4].type = MT_CPAK

\* C2: a block read whose byte offset lba * blksz is at or beyond the end of
\* the last mounted region is flagged out of range (and buffer_lba is set to
\* lba), reads no backing file and still sends exactly one block, all zero, to
\* the transport.  With no region mounted there is no last region; such a read
\* still reads no file and sends one zero block.
C2_ReadBeyondEnd ==
  (io.op = "rd" /\ io.lba * io.blksz >= RegionsEnd) =>
    /\ mounted_save_files > 0 => io.invalid /\ io.buffer_lba = io.lba
    /\ ~io.file_io
    /\ io.sent = <<Zeros(io.sz)>>
    /\ buffer = Zeros(BufferSize)

\* A read beyond the last region, after a write left its block in the buffer.
C2_Witness ==
  /\ io.op = "rd"
  /\ mounted_save_files > 0
  /\ io.lba * io.blksz >= RegionsEnd
  /\ io.sz = BufferSize
  /\ nio > 0

\* C3: every block write takes exactly one block from the transport whatever
\* its outcome, and a write whose byte offset is at or beyond the end of the
\* last mounted region changes no backing file.
C3_WriteTakesOneBlock ==
  [][nio' = nio + 1 =>
       /\ io'.op = "wr"
       /\ io'.taken = 1
       /\ io'.lba * io'.blksz >= RegionsEnd => fs' = fs]_vars

\* A write of a non-empty block beyond the last region, whose file is open.
C3_Witness ==
  /\ io.op = "wr"
  /\ io.sz > 0
  /\ mounted_save_files > 0
  /\ sd_image[mounted_save_files - 1].opened
  /\ io.lba * io.blksz >= RegionsEnd

\* C4: for a controller-pak or transfer-pak region with an open backing file,
\* a block of any length written through n64_save_savedata and then read at
\* the same block address with the same length through n64_load_savedata comes
\* back as it was written, also for lengths that are no multiple of 4.
C4_PakRoundTrip ==
  (/\ io.op = "rd"
   /\ last_wr.written
   /\ IsPak(save_files[last_wr.file_idx].type)
   /\ io.lba = last_wr.lba
   /\ io.sz = last_wr.sz) =>
    /\ io.file_idx = last_wr.file_idx
    /\ io.sent = <<last_wr.block>>

\* A transfer-pak block of BufferSize bytes was written and read back.
C4_Witness ==
  /\ io.op = "rd"
  /\ last_wr.written
  /\ save_files[last_wr.file_idx].type = MT_TPAK
  /\ io.lba = last_wr.lba
  /\ io.sz = last_wr.sz
  /\ io.sz = BufferSize
  /\ io.sz % 4 # 0

\* C5: a load of a ROM shorter than 4096 bytes (0 to 4095) ends with the
\* error shown, with failure returned and with no region mounted.
C5_ShortRomRejected ==
  [][(pc # "idle" /\ pc' = "idle" /\ data_size < 4096) =>
       /\ ret' = 0
       /\ info' = <<"Invalid ROM!">>
       /\ mounted_save_files' = 0]_vars

\* The positions of a load before its first region is mounted.
BeforeMount ==
  {"first_chunk", "chunk", "file_md5", "cart_id", "complement", "homebrew",
   "boot_chip", "mount_save"}

\* C6: a load closes every region of the previous ROM and resets the registry
\* to zero regions before it mounts its first region; the registry holds only
\* regions of the latest load, slot i < mounted count holds the region whose
\* slot index is i, and the mounted count never exceeds 5.
C6_RegistryOfLatestLoad ==
  /\ mounted_save_files <= 5
  /\ pc \in BeforeMount => mounted_save_files = 0
  /\ \A i \in 0..(MAX_SAVE_FILES - 1) :
       IF i < mounted_save_files
       THEN /\ save_files[i].idx = i
            /\ pc # "idle" => sd_image[i].name[1] = name[2]
       ELSE /\ save_files[i] = UnmountedSaveFile
            /\ sd_image[i] = ClosedImage

\* The second load, of ROM "b", has mounted five regions after ROM "a" had
\* its own.
C6_Witness ==
  /\ loads = 2
  /\ pc = "end_tx"
  /\ name[2] = "b"
  /\ mounted_save_files = 5
  /\ <<"a", 0, ".sra">> \in DOMAIN fs
  /\ <<"a", 1, ".tpk">> \in DOMAIN fs

\* C7: after a completed load the mounted regions are, in slot order: one
\* save-type region if the save type is not none; then one transfer pak if
\* its flag is set, else one controller pak if its flag is set; then three
\* further controller paks if the controller-pak flag is set.  So at most one
\* save-type region and at most four pak regions are mounted, and a transfer
\* pak only in the first pak slot.
C7_MountOrder ==
  AfterLoad =>
    /\ MountedTypes = ExpectedTypes(status)
    /\ Cardinality({i \in 0..(mounted_save_files - 1) : ~IsPak(save_files[i].type)}) <= 1
    /\ Cardinality({i \in 0..(mounted_save_files - 1) : IsPak(save_files[i].type)}) <= 4
    /\ \A i \in 0..(mounted_save_files - 1) :
         save_files[i].type = MT_TPAK =>
           \A j \in 0..(i - 1) : ~IsPak(save_files[j].type)

\* A save-type region, a transfer pak and three controller paks.
C7_Witness ==
  /\ AfterLoad
  /\ MountedTypes = <<MT_EEPROM_2k, MT_TPAK, MT_CPAK, MT_CPAK, MT_CPAK>>

Rank(s) ==
  CASE s = "hdr" -> 1
    [] s = "file" -> 2
    [] s = "cartid" -> 3
    [] s = "homebrew" -> 4
    [] OTHER -> 5

Lookups == {"hdr", "file", "cartid"}

\* Whether a line of a knowledge-base file matches the key of strategy s.
LineMatches(s, line, key) ==
  IF s = "cartid" THEN cart_id_is_match(line, key) # 0 ELSE md5_matches(line, key)

\* The lines of file f (1 the user's, 2 the bundled) that match.
Hits(s, key, f) ==
  IF dbs[f].readable
  THEN {n \in 1..Len(dbs[f].lines) : LineMatches(s, dbs[f].lines[n], key)}
  ELSE {}

Least(S) == CHOOSE n \in S : \A m \in S : n <= m

\* The <<file, line>> a lookup is to take: the first matching line of the
\* user's file, else of the bundled file; a cart code that is not
\* alphanumeric is not looked up.
FirstRecord(s, key) ==
  IF s = "cartid" /\ \E i \in 1..CARTID_LENGTH : ~isalnum(key[i]) THEN <<0, 0>>
  ELSE IF Hits(s, key, 1) # {} THEN <<1, Least(Hits(s, key, 1))>>
  ELSE IF Hits(s, key, 2) # {} THEN <<2, Least(Hits(s, key, 2))>>
  ELSE <<0, 0>>

\* The record of an entry of ran that matched one.
RecordOf(e) == dbs[e.line[1]].lines[e.line[2]]

\* The tag field of the record is the one the interpreter was given.
WellFormed(e) ==
  /\ RecordOf(e).ok
  /\ RecordOf(e).kind = "id" => RecordOf(e).term = "ws"

\* C9: the strategies run in the order header hash, full-content hash, cart
\* code, homebrew header; a lookup takes the first matching record of the
\* user's file, else of the bundled file; a strategy runs only if no earlier one
\* produced a non-zero outcome, so that the record applied to the
\* configuration is that of the earliest strategy that matched.
C9_ResolutionOrder ==
  /\ \A j, k \in 1..Len(ran) :
       j < k => /\ Rank(ran[j].s) < Rank(ran[k].s)
                /\ ran[k].s # "cic" => ran[j].det = 0
  /\ \A k \in 1..Len(ran) :
       ran[k].s \in Lookups => (ran[k].det # 0 <=> ran[k].line # <<0, 0>>)
  /\ ran # <<>> =>
       /\ (ran[Len(ran)].s = "hdr" /\ pc \in {"chunk", "file_md5"}) =>
            ran[Len(ran)].line = FirstRecord("hdr", md5_hex)
       /\ (ran[Len(ran)].s = "file" /\ pc \in {"cart_id", "complement"}) =>
            ran[Len(ran)].line = FirstRecord("file", md5_hex)
       /\ (ran[Len(ran)].s = "cartid" /\ pc \in {"homebrew", "boot_chip"}) =>
            ran[Len(ran)].line = FirstRecord("cartid", cart_id)
  /\ \A k \in 1..Len(ran) :
       (/\ ran[k].s \in Lookups
        /\ ran[k].det # 0
        /\ is_auto(status)
        /\ WellFormed(ran[k])) =>
         get_cart_save_type(status) = ParseTags(RecordOf(ran[k]).tags).save_type

\* Both hash lookups found nothing and the cart-code lookup took the record of
\* the user's file, which the bundled file also has.
C9_Witness ==
  /\ pc = "boot_chip"
  /\ Len(ran) = 3
  /\ ran[3].s = "cartid"
  /\ ran[3].line = <<1, 6>>
  /\ dbs[2].readable
  /\ Hits("cartid", cart_id, 2) # {}
  /\ is_auto(status)

\* The positions of a load after the boot-chip step.
AfterDetection ==
  {"mount_save", "mount_pak", "mount_cpak", "end_tx", "reset_on", "reset_off", "finish"}

\* The outcome of steps 1-4: that of the strategy that matched, else 0.
OutcomeOfSteps ==
  IF \E k \in 1..Len(ran) : ran[k].s # "cic" /\ ran[k].det # 0
  THEN ran[CHOOSE k \in 1..Len(ran) : ran[k].s # "cic" /\ ran[k].det # 0].det
  ELSE 0

BootChipRuns == Cardinality({k \in 1..Len(ran) : ran[k].s = "cic"})

\* C10: when steps 1-4 end with outcome 2 or 0 the boot-chip heuristic runs
\* exactly once before the load finishes; when a knowledge-base record yields
\* outcome 3 it does not run, and the region and the boot chip written from
\* the record stand.
C10_BootChipComplement ==
  pc \in AfterDetection =>
    /\ OutcomeOfSteps \in {0, 2} => BootChipRuns = 1
    /\ OutcomeOfSteps = 3 =>
         /\ BootChipRuns = 0
         /\ \A k \in 1..Len(ran) :
              (ran[k].det = 3 /\ is_auto(status)) =>
                /\ user_io_status_get(status, SYS_TYPE_OPT)
                     = ParseTags(RecordOf(ran[k]).tags).system_type
                /\ user_io_status_get(status, CIC_TYPE_OPT)
                     = ParseTags(RecordOf(ran[k]).tags).cic_type

\* A record of the header-hash lookup gave outcome 2 and the heuristic ran.
C10_Witness ==
  /\ pc = "mount_save"
  /\ Len(ran) = 2
  /\ ran[1].s = "hdr"
  /\ ran[1].det = 2
  /\ ran[2].s = "cic"
  /\ is_auto(status)

\* The record a lookup step has just matched names a region and a boot chip.
RecordNamesRegionAndChip(e) ==
  /\ e.line # <<0, 0>>
  /\ ParseTags(RecordOf(e).tags).system_type # SYS_UNKNOWN
  /\ ParseTags(RecordOf(e).tags).cic_type # CIC_UNKNOWN

\* C11: in both auto-detect modes, bit 0 of the Detection Outcome is set only
\* by a step that knows both the region and the boot chip: a lookup whose
\* record names them, or the boot-chip heuristic on a checksum of the
\* signature table.
C11_BitZeroOnlyWhenKnown ==
  [][(rom_settings_detected % 2 = 0 /\ rom_settings_detected' % 2 = 1) =>
       IF pc \in {"boot_chip", "complement"}
       THEN \E k \in 1..2 : IsKnownSignature(bootcode_sums[k])
       ELSE RecordNamesRegionAndChip(ran'[Len(ran')])]_vars

\* The matching lines of file f whose tag field is well formed.
WellFormedHits(s, key, f) ==
  {n \in Hits(s, key, f) : dbs[f].lines[n].ok}

\* The <<file, line>> a lookup would take if a matching line with a malformed
\* tag field were no match.
FirstWellFormedRecord(s, key) ==
  IF s = "cartid" /\ \E i \in 1..CARTID_LENGTH : ~isalnum(key[i]) THEN <<0, 0>>
  ELSE IF WellFormedHits(s, key, 1) # {} THEN <<1, Least(WellFormedHits(s, key, 1))>>
  ELSE IF WellFormedHits(s, key, 2) # {} THEN <<2, Least(WellFormedHits(s, key, 2))>>
  ELSE <<0, 0>>

\* C12: a knowledge-base line that matches the key but has a malformed tag
\* field is treated as no match: the lookup goes on to the following lines and
\* files and takes the first matching line that is well formed, and a
\* malformed line never gives a non-zero outcome by itself.
C12_MalformedLineIsNoMatch ==
  /\ \A k \in 1..Len(ran) :
       (ran[k].s \in Lookups /\ ran[k].line # <<0, 0>>) => RecordOf(ran[k]).ok
  /\ ran # <<>> =>
       /\ (ran[Len(ran)].s = "hdr" /\ pc \in {"chunk", "file_md5"}) =>
            ran[Len(ran)].line = FirstWellFormedRecord("hdr", md5_hex)
       /\ (ran[Len(ran)].s = "file" /\ pc \in {"cart_id", "complement"}) =>
            ran[Len(ran)].line = FirstWellFormedRecord("file", md5_hex)
       /\ (ran[Len(ran)].s = "cartid" /\ pc \in {"homebrew", "boot_chip"}) =>
            ran[Len(ran)].line = FirstWellFormedRecord("cartid", cart_id)

\* The options C13 names: all but auto-detect itself and the reset line.
ConfigOpts == Opts \ {AUTODETECT_OPT, RESET_OPT}

\* C13: with auto-detect off no step of a load changes the region, the boot
\* chip, the aspect option, a controller mode, the save type, RTC, the
\* expansion-disabled flag or a pak flag, nor the saved aspect ratio, whatever
\* the strategies find.
C13_AutoOffLeavesConfig ==
  [][~is_auto(status) =>
       /\ \A o \in ConfigOpts : status'[o] = status[o]
       /\ old_ar' = old_ar]_vars

\* With auto-detect off a load is about to finish whose header hash matched
\* the record "eeprom2k rpak CIC7102 wide", over options and a saved ratio
\* that record would have changed.
C13_Witness ==
  /\ pc = "finish"
  /\ ~is_auto(status)
  /\ \E k \in 1..Len(ran) : ran[k].s = "hdr" /\ ran[k].line = <<2, 2>> /\ ran[k].det = 3
  /\ status = LeftBy(AUTO_OFF, <<N64_PAD_WITH_RPAK, SNAC, N64_PAD, SNAC>>, AR_CUSTOM_1)
  /\ old_ar = AR_CUSTOM_2
  /\ mounted_save_files = 5

\* The save type and the peripheral flags.
PeripheralOpts == {SAVE_TYPE_OPT, CPAK_OPT, RPAK_OPT, TPAK_OPT, RTC_OPT, NO_EPAK_OPT}

\* The options the strategies of this load have written.
WrittenInLoad == UNION {ran[k].wrote : k \in 1..Len(ran)}

\* C14: with auto-detect on, when the detection steps of a load are over the
\* save type and each peripheral flag (controller pak, rumble pak, transfer
\* pak, RTC, expansion disabled) have been written at least once by this
\* load, whichever strategy matched or failed.
C14_PeripheralsAlwaysWritten ==
  (pc = "mount_save" /\ is_auto(status)) => PeripheralOpts \subseteq WrittenInLoad

\* The homebrew heuristic ran and failed: so did the three lookups before it.
AllStrategiesFailed ==
  \E k \in 1..Len(ran) : ran[k].s = "homebrew" /\ ran[k].det = 0

\* Save type none, the paks and RTC off, the expansion memory enabled.
DefaultsIn(st) ==
  /\ get_cart_save_type(st) = MT_NONE
  /\ \A o \in {CPAK_OPT, RPAK_OPT, TPAK_OPT, RTC_OPT, NO_EPAK_OPT} :
       user_io_status_get(st, o) = 0

\* C15: when the header-hash, content-hash and cart-code lookups and the
\* homebrew heuristic all fail and auto-detect is on, then from the end of
\* detection on the save type is none, controller pak, rumble pak, transfer
\* pak and RTC are off, the expansion memory is enabled, bit 1 of the
\* Detection Outcome is clear and no region is mounted; the load returns
\* success and leaves all this so.
C15_UnrecognisedRomDefaults ==
  /\ []((is_auto(status) /\ AllStrategiesFailed /\ pc \in AfterDetection) =>
          /\ DefaultsIn(status)
          /\ rom_settings_detected \in {0, 1}
          /\ mounted_save_files = 0)
  /\ [][(is_auto(status) /\ AllStrategiesFailed /\ pc = "finish") =>
          /\ pc' = "idle"
          /\ ret' = 1
          /\ DefaultsIn(status')
          /\ mounted_save_files' = 0
          /\ info'[3] = "ROM missing from database."]_vars

\* An unrecognised ROM with a boot-code checksum of the table is about to
\* finish, over options that had every peripheral on.
C15_Witness ==
  /\ pc = "finish"
  /\ is_auto(status)
  /\ AllStrategiesFailed
  /\ Len(ran) = 5
  /\ rom_settings_detected = 1
  /\ user_io_status_get(status, SYS_TYPE_OPT) = SYS_NTSC
  /\ old_ar = AR_UNKNOWN
  /\ user_io_status_get(status, AR_TYPE_OPT) = AR_CUSTOM_2

\* C16: a controller slot whose mode is SNAC (externally driven) keeps that
\* mode through every step of a ROM load, whatever tags the matching record
\* carries and whatever the controller bytes of a homebrew header are.
C16_SnacNeverReplaced ==
  [][\A i \in 1..4 :
       user_io_status_get(status, CONTROLLER_OPTS[i]) = SNAC =>
         user_io_status_get(status', CONTROLLER_OPTS[i]) = SNAC]_vars

\* A homebrew header with controller bytes for slots 1, 2 and 4 was applied
\* over slots 1 and 3 externally driven: slots 2 and 4 follow the header.
C16_Witness ==
  /\ pc = "finish"
  /\ \E k \in 1..Len(ran) :
       ran[k].s = "homebrew" /\ CONTROLLER_OPTS[2] \in ran[k].wrote
  /\ user_io_status_get(status, CONTROLLER_OPTS[1]) = SNAC
  /\ user_io_status_get(status, CONTROLLER_OPTS[2]) = N64_PAD_WITH_RPAK
  /\ user_io_status_get(status, CONTROLLER_OPTS[3]) = SNAC
  /\ user_io_status_get(status, CONTROLLER_OPTS[4]) = UNPLUGGED

\* This step applies a tag list that is wide (w = 1) or not (w = 0).
AppliesTags(w) ==
  /\ Len(ran') = Len(ran) + 1
  /\ ran'[Len(ran')].s = "tags"
  /\ ran'[Len(ran')].det = w

\* The aspect option and the saved-ratio slot are what they were.
AspectUnchanged ==
  /\ user_io_status_get(status', AR_TYPE_OPT) = user_io_status_get(status, AR_TYPE_OPT)
  /\ old_ar' = old_ar

\* C17: with auto-detect on, a wide tag list applied directly after a wide
\* tag list (no change of the aspect option from outside in between) leaves
\* the aspect option and the saved-ratio slot as the first application left
\* them; and a non-wide tag list applied while no ratio is saved leaves both
\* unchanged.
C17_WideIdempotent ==
  [][/\ (/\ is_auto(status)
         /\ AppliesTags(1)
         /\ Len(ran) > 0
         /\ ran[Len(ran)].s = "tags"
         /\ ran[Len(ran)].det = 1) => AspectUnchanged
     /\ (/\ is_auto(status)
         /\ AppliesTags(0)
         /\ old_ar = AR_UNKNOWN) => AspectUnchanged]_vars

\* A non-wide list was applied over a custom ratio with nothing saved, then
\* a wide list twice: the second found the option full and the custom ratio
\* saved, and left them so.
C17_Witness ==
  /\ is_auto(status)
  /\ Len(ran) = 3
  /\ \A k \in 1..3 : ran[k].s = "tags"
  /\ ran[1].det = 0 /\ ran[1].line = <<AR_CUSTOM_1, AR_UNKNOWN>>
  /\ ran[2].det = 1 /\ ran[2].line = <<AR_CUSTOM_1, AR_UNKNOWN>>
  /\ ran[3].det = 1 /\ ran[3].line = <<AR_FULL, AR_CUSTOM_1>>
  /\ user_io_status_get(status, AR_TYPE_OPT) = AR_FULL
  /\ old_ar = AR_CUSTOM_1

\* C18: with auto-detect on, a non-wide tag list applied while a ratio is
\* saved sets the aspect option to the saved ratio and clears the slot,
\* whatever the aspect option was; and a wide tag list applied while the
\* aspect option is not full saves the option's value in the slot and sets
\* the option to full.
C18_RestoreWhenPending ==
  [][/\ (/\ is_auto(status)
         /\ AppliesTags(0)
         /\ old_ar # AR_UNKNOWN) =>
          /\ user_io_status_get(status', AR_TYPE_OPT) = old_ar
          /\ old_ar' = AR_UNKNOWN
     /\ (/\ is_auto(status)
         /\ AppliesTags(1)
         /\ user_io_status_get(status, AR_TYPE_OPT) # AR_FULL) =>
          /\ old_ar' = user_io_status_get(status, AR_TYPE_OPT)
          /\ user_io_status_get(status', AR_TYPE_OPT) = AR_FULL]_vars

MountSteps == {"mount_save", "mount_pak", "mount_cpak"}

\* C19: in a load, do_reset is false before the first mount and each mount
\* step sets it exactly when the step created a file, so at the end of the
\* mounts it says whether a region of this load had its file newly created;
\* the end-of-transfer step clears the download signal and goes on to the
\* reset pulse if and only if do_reset; the reset line is written nowhere
\* else, to 1 and then to 0; and during and after the pulse the download
\* signal is off and no region is mounted and no file created any more.
C19_ResetIffCreated ==
  /\ [](pc = "mount_save" => ~do_reset)
  /\ [][(pc \in MountSteps) =>
          do_reset' = (do_reset \/ DOMAIN fs' # DOMAIN fs)]_vars
  /\ [][pc = "end_tx" =>
          /\ download' = 0
          /\ pc' = IF do_reset THEN "reset_on" ELSE "finish"]_vars
  /\ [][user_io_status_get(status', RESET_OPT) # user_io_status_get(status, RESET_OPT) =>
          pc \in {"reset_on", "reset_off"}]_vars
  /\ [][pc = "reset_on" =>
          user_io_status_get(status', RESET_OPT) = 1 /\ pc' = "reset_off"]_vars
  /\ [][pc = "reset_off" =>
          user_io_status_get(status', RESET_OPT) = 0 /\ pc' = "finish"]_vars
  /\ [](pc \in {"reset_on", "reset_off"} => do_reset /\ download = 0)
  /\ [][(pc \in {"end_tx", "reset_on", "reset_off", "finish"}) =>
          UNCHANGED <<registry, fs>>]_vars

\* The pulse has been given in a load that mounted five regions, one of
\* which could not be created.
C19_Witness ==
  /\ pc = "finish"
  /\ do_reset
  /\ mounted_save_files = 5
  /\ fails = 1
  /\ download = 0
  /\ user_io_status_get(status, RESET_OPT) = 0

\* The first k pattern positions of the line are there and each is '_' or
\* the cart code's character.
PositionsMatch(line, code, k) ==
  /\ Len(line.pat) >= k
  /\ \A j \in 1..k : line.pat[j] = "_" \/ line.pat[j] = code[j]

\* The count a character-by-character comparison gives: 6 for six matching
\* positions, k for k matching positions followed by whitespace, else 0.
ComparedCount(line, code) ==
  IF line.kind # "id" THEN 0
  ELSE IF PositionsMatch(line, code, CARTID_LENGTH) THEN CARTID_LENGTH
  ELSE IF /\ Len(line.pat) \in 1..(CARTID_LENGTH - 1)
          /\ line.term = "ws"
          /\ PositionsMatch(line, code, Len(line.pat))
  THEN Len(line.pat)
  ELSE 0

\* C20: for the alphanumeric cart code of the load and every line of the
\* knowledge-base files, cart_id_is_match returns 6 only when all six pattern
\* positions are present and match, k in 1..5 only when the first k positions
\* match and whitespace follows them, and 0 otherwise; so a line that ends
\* after fewer than six pattern characters never gives a count above the
\* number of characters compared.
C20_CountIsCharactersCompared ==
  (/\ pc \in {"homebrew", "boot_chip"}
   /\ ran # <<>>
   /\ ran[Len(ran)].s = "cartid"
   /\ \A i \in 1..CARTID_LENGTH : isalnum(cart_id[i])) =>
    \A f \in 1..2 : \A n \in 1..Len(dbs[f].lines) :
      /\ cart_id_is_match(dbs[f].lines[n], cart_id) =
           ComparedCount(dbs[f].lines[n], cart_id)
      /\ dbs[f].lines[n].kind = "id" =>
           cart_id_is_match(dbs[f].lines[n], cart_id) <= Len(dbs[f].lines[n].pat)

\* C21: for the boot vector of a cartridge, a disk image and the malformed
\* homebrew variant and any content of whole words, the file that stores the
\* ROM big-endian, byte-swapped or little-endian is classified from its first
\* word as the order it is stored in, and every chunk normalised with that
\* class is the chunk of the canonical big-endian bytes: the same for the
\* three stored orders.
C21_OrdersConverge ==
  [][(pc \in {"first_chunk", "chunk"}) =>
       /\ rom_format' = rom.order
       /\ buf' = SubSeq(rom.bytes, data_size - data_left + 1,
                        data_size - data_left')]_vars

\* The last chunk of a little-endian homebrew ROM of two chunks was
\* normalised; its stored bytes differ from the canonical ones.
C21_Witness ==
  /\ pc = "file_md5"
  /\ rom.order = DF_LITTLE_ENDIAN
  /\ SubSeq(rom.bytes, 1, 4) = <<128, 55, 18, 65>>
  /\ Len(rom.bytes) = 4 * MaxWords
  /\ rom_format = DF_LITTLE_ENDIAN
  /\ buf = SubSeq(rom.bytes, 4 * ChunkWords + 1, Len(rom.bytes))
  /\ buf # SubSeq(StoredAs(rom.bytes, rom.order), 4 * ChunkWords + 1, Len(rom.bytes))

\* A lookup of this load matched a well-formed record with the tag list
\* sram32k|cpak|ntsc (in any letter case).
MatchedSramCpakNtsc ==
  \E k \in 1..Len(ran) :
    /\ ran[k].s \in Lookups
    /\ ran[k].line # <<0, 0>>
    /\ WellFormed(ran[k])
    /\ [i \in 1..Len(RecordOf(ran[k]).tags) |-> ToLower(RecordOf(ran[k]).tags[i])]
         = <<"sram32k", "cpak", "ntsc">>

\* C22: with auto-detect on, a load whose matched record has the tag list
\* sram32k|cpak|ntsc ends with save type 32k SRAM, the controller-pak flag
\* on, the first controller a pad with controller pak unless it is SNAC,
\* region NTSC and Detection Outcome 3, whatever the region-code character
\* and the boot-code checksums of the ROM are.
C22_SramCpakNtscExample ==
  (pc = "finish" /\ is_auto(status) /\ MatchedSramCpakNtsc) =>
    /\ get_cart_save_type(status) = MT_SRAM_32k
    /\ user_io_status_get(status, CPAK_OPT) = 1
    /\ user_io_status_get(status, CONTROLLER_OPTS[1]) \in {N64_PAD_WITH_CPAK, SNAC}
    /\ user_io_status_get(status, SYS_TYPE_OPT) = SYS_NTSC
    /\ rom_settings_detected = 3

\* The boot-chip heuristic is about to run with auto-detect on.
HeuristicRuns ==
  /\ pc \in {"boot_chip", "complement"}
  /\ NeedsBootChip(pc, rom_settings_detected)
  /\ is_auto(status)

\* The region the region-code character of the cart code stands for.
RegionOfCode ==
  IF cart_id[4] \in PalRegionCodes THEN SYS_PAL ELSE SYS_NTSC

\* The chip the table gives for boot-code checksum k of the ROM
\* (1: bytes 0x40-0x1000, 2: bytes 0x40-0xC00).
ChipOfSum(k) ==
  CicBranch((CHOOSE e \in SignatureTable : e[1] = bootcode_sums[k])[2], RegionOfCode).cic

\* The heuristic selected the chip of checksum k at its try number t.
Selects(k, t) ==
  /\ user_io_status_get(status', CIC_TYPE_OPT) = ChipOfSum(k)
  /\ ran'[Len(ran')].line = <<0, t>>

C24_UnknownChipDefaults ==
  [][(/\ pc \in {"boot_chip", "complement"}
      /\ NeedsBootChip(pc, rom_settings_detected)
      /\ ~IsKnownSignature(bootcode_sums[1])
      /\ ~IsKnownSignature(bootcode_sums[2])) =>
       /\ ran'[Len(ran')].s = "cic"
       /\ ran'[Len(ran')].line = <<0, 2>>
       /\ is_auto(status) =>
            /\ user_io_status_get(status', SYS_TYPE_OPT) = RegionOfCode
            /\ user_io_status_get(status', CIC_TYPE_OPT) =
                 (IF RegionOfCode = SYS_PAL THEN CIC_NUS_7101 ELSE CIC_NUS_6102)
       /\ ~is_auto(status) => status' = status
       /\ ran'[Len(ran')].det = 0
       /\ rom_settings_detected' % 2 = 0]_vars

\* The tag list this step applies, in lower case.
AppliedTags ==
  [i \in 1..Len(ran'[Len(ran')].tags) |-> ToLower(ran'[Len(ran')].tags[i])]

\* The places of a tag list that hold a token of a set.
Places(tags, tokens) == {i \in 1..Len(tags) : tags[i] \in tokens}

SaveTokens == {e[1] : e \in SaveTags}

PakTokens == {"cpak", "rpak", "tpak"}

\* The save type of the last save-size token, none without one.
LastSaveType(tags) ==
  IF Places(tags, SaveTokens) = {} THEN MT_NONE
  ELSE (CHOOSE e \in SaveTags :
          e[1] = tags[CHOOSE i \in Places(tags, SaveTokens) :
                        \A j \in Places(tags, SaveTokens) : j <= i])[2]

\* The pad mode of the first pak token, the plain pad without one.
FirstPakMode(tags) ==
  IF Places(tags, PakTokens) = {} THEN N64_PAD
  ELSE LET t == tags[Least(Places(tags, PakTokens))]
       IN  IF t = "cpak" THEN N64_PAD_WITH_CPAK
           ELSE IF t = "rpak" THEN N64_PAD_WITH_RPAK
           ELSE N64_PAD_WITH_TPAK

\* The tokens the interpreter has a case for.
KnownTokens ==
  SaveTokens \cup PakTokens \cup {"noepak", "rtc", "ntsc", "pal", "wide"}
  \cup {e[1] : e \in CicTags}

\* The tag list without its unrecognised tokens.
Recognised(tags) ==
  SelectSeq(tags, LAMBDA t : t \in KnownTokens)

\* C25: for every tag list the resolved save type is that of the last
\* save-size token (none without one) and the preferred controller mode is
\* the pak mode of the first pak token (the plain pad without one), and they
\* are what an application with auto-detect on writes to the save type and
\* to the first controller; the tokens that are not recognised change no
\* attribute: the list resolves as it does without them.
C25_LastSaveFirstPak ==
  [][(Len(ran') = Len(ran) + 1 /\ ran'[Len(ran')].s = "tags") =>
       /\ ParseTags(AppliedTags).save_type = LastSaveType(AppliedTags)
       /\ ParseTags(AppliedTags).prefered_pad = FirstPakMode(AppliedTags)
       /\ ParseTags(AppliedTags) = ParseTags(Recognised(AppliedTags))
       /\ ParseTags(ran'[Len(ran')].tags) = ParseTags(AppliedTags)
       /\ is_auto(status) =>
            /\ get_cart_save_type(status') = LastSaveType(AppliedTags)
            /\ user_io_status_get(status', CONTROLLER_OPTS[1]) = FirstPakMode(AppliedTags)]_vars

\* The list tpak|bogus|rpak|flash128k|Sram32k was applied with auto-detect
\* on: the second save size and the first pak won.
C25_Witness ==
  /\ is_auto(status)
  /\ Len(ran) = 1
  /\ ran[1].tags = <<"tpak", "bogus", "rpak", "flash128k", "Sram32k">>
  /\ get_cart_save_type(status) = MT_SRAM_32k
  /\ user_io_status_get(status, CONTROLLER_OPTS[1]) = N64_PAD_WITH_TPAK
  /\ user_io_status_get(status, RPAK_OPT) = 1

RegionTokens == {"ntsc", "pal"}

RegionOfToken(t) == IF t = "pal" THEN SYS_PAL ELSE SYS_NTSC

\* The boot-chip entry of the one chip token of a tag list.
ChipOf(tags) == CHOOSE c \in CicTags : Places(tags, {c[1]}) # {}

ChipPlace(tags) == Least(Places(tags, {ChipOf(tags)[1]}))

\* The last region token of a tag list after place k.
LastRegionAfter(tags, k) ==
  RegionOfToken(tags[CHOOSE i \in Places(tags, RegionTokens) :
                       i > k /\ \A j \in Places(tags, RegionTokens) : j <= i])

HasRegionAfter(tags, k) == \E i \in Places(tags, RegionTokens) : i > k

\* This step applies a tag list holding exactly one boot-chip token.
AppliesChipList ==
  /\ Len(ran') = Len(ran) + 1
  /\ ran'[Len(ran')].s = "tags"
  /\ Cardinality(Places(AppliedTags, {c[1] : c \in CicTags})) = 1

\* The region a list with one chip token resolves to when the chip implies
\* the region implied: a later region token wins, an earlier one does not.
ChipRegionRule(tags, implied) ==
  IF HasRegionAfter(tags, ChipPlace(tags))
  THEN LastRegionAfter(tags, ChipPlace(tags))
  ELSE implied

\* C26 as stated: each of the fifteen chip tokens implies a region (the one
\* the token alone resolves to); the list resolves to it unless a region
\* token follows the chip, and a region token before the chip changes nothing.
C26_EveryChipImpliesRegion ==
  [][AppliesChipList =>
       ParseTags(AppliedTags).system_type =
         ChipRegionRule(AppliedTags, ParseTags(<<ChipOf(AppliedTags)[1]>>).system_type)]_vars

\* C26: a list with one of the ten cic6xxx and cic7xxx tokens resolves to
\* the chip's region (NTSC for cic6xxx, PAL for cic7xxx) unless a region
\* token follows the chip, whatever region token precedes it; the five other
\* chip tokens (cic8303, cic8401, cic5167, cicddus, cic5101) leave the region
\* alone: the list resolves to its last region token, before or after the
\* chip, and to NTSC without one.  The chip is resolved in both cases, and with
\* auto-detect on the region and the chip are written to the configuration.
C26_TenChipsImplyRegion ==
  [][AppliesChipList =>
       /\ ParseTags(AppliedTags).cic_type = ChipOf(AppliedTags)[2]
       /\ ChipOf(AppliedTags)[3] # SYS_UNKNOWN =>
            ParseTags(AppliedTags).system_type =
              ChipRegionRule(AppliedTags, ChipOf(AppliedTags)[3])
       /\ ChipOf(AppliedTags)[3] = SYS_UNKNOWN =>
            ParseTags(AppliedTags).system_type =
              IF HasRegionAfter(AppliedTags, 0)
              THEN LastRegionAfter(AppliedTags, 0) ELSE SYS_NTSC
       /\ is_auto(status) =>
            /\ user_io_status_get(status', SYS_TYPE_OPT) = ParseTags(AppliedTags).system_type
            /\ user_io_status_get(status', CIC_TYPE_OPT) = ChipOf(AppliedTags)[2]]_vars

\* The list pal|cic8303 was applied with auto-detect on: the region is PAL.
C26_Witness ==
  /\ is_auto(status)
  /\ Len(ran) = 1
  /\ ran[1].tags = <<"pal", "cic8303">>
  /\ user_io_status_get(status, SYS_TYPE_OPT) = SYS_PAL
  /\ user_io_status_get(status, CIC_TYPE_OPT) = CIC_NUS_8303

\* The slot, the region type and the backing path of the region a mount
\* step registers.
MountedSlot == mounted_save_files

MountedType == save_files'[MountedSlot].type

MountedPath == sd_image'[MountedSlot].name

\* The offsets of a new backing file that are compared with the legacy file:
\* its first words, the words around the ends of the legacy data (512 and
\* 33280 bytes) and of a pak, and its last word.
SampledOffsets(size) ==
  {o \in (0..7) \cup (508..515) \cup (32764..32771) \cup (33276..33283)
         \cup ((size - 4)..(size - 1)) : o < size}

\* Byte o of a region migrated from the legacy file at offset off.
MigratedByte(legacy, off, type, o) ==
  LET src == off + (IF IsPak(type) THEN WordReversed(o) ELSE o)
  IN  IF src < legacy.size THEN FileByte(legacy, src) ELSE 0

\* This step mounts a region whose backing file is absent while the legacy
\* file has data at the start offset of the region's slot, and creates it.
MigratesLegacy ==
  /\ pc \in MountSteps
  /\ mounted_save_files' = mounted_save_files + 1
  /\ ~FileExists(fs, MountedPath)
  /\ FileExists(fs', MountedPath)
  /\ FileExists(fs, get_old_save_path(name))
  /\ RegionsEnd < fs[get_old_save_path(name)].size

\* C27: a region whose backing file is absent, mounted while the legacy
\* combined file has data at the start offset of the region's slot (the sum of
\* the sizes of the regions mounted before it), gets a backing file of the
\* region's fixed size that holds the legacy bytes from that offset, each
\* 4-byte word reversed for a pak region, and zero where the legacy file ends.
C27_LegacyMigration ==
  [][MigratesLegacy =>
       /\ get_save_file_offset(status, MountedSlot) = RegionsEnd
       /\ fs'[MountedPath].size = get_save_size(MountedType)
       /\ \A o \in SampledOffsets(get_save_size(MountedType)) :
            FileByte(fs'[MountedPath], o) =
              MigratedByte(fs[get_old_save_path(name)], RegionsEnd, MountedType, o)]_vars

\* ROM "a" was loaded with a 32k SRAM and a controller pak: the pak file holds
\* the last 512 bytes of the legacy file word-reversed, then zeros.
C27_Witness ==
  /\ FileExists(fs, <<"a", 1, ".cpk">>)
  /\ FileExists(fs, <<"a", 0, ".sra">>)
  /\ fs[<<"a", 1, ".cpk">>].size = 32768
  /\ FileByte(fs[<<"a", 1, ".cpk">>], 0) = UserByte(32768 + 3)
  /\ FileByte(fs[<<"a", 1, ".cpk">>], 511) = UserByte(32768 + 508)
  /\ FileByte(fs[<<"a", 1, ".cpk">>], 512) = 0
  /\ FileByte(fs[<<"a", 0, ".sra">>], 5) = UserByte(5)

\* C28: a block read or write that is not flagged out of range selected a
\* slot strictly below the number of mounted regions, also when no region is
\* mounted, and a request that read or wrote a backing file did so in a
\* mounted slot.
C28_SlotBelowCount ==
  (io # NoIo) =>
    /\ ~io.invalid => io.file_idx < mounted_save_files
    /\ io.file_io => io.file_idx < mounted_save_files

\* C29: mounting leaves every file that exists as it is, the backing files
\* that are already there and the legacy combined file, and removes none; a
\* step creates at most the backing file of the region it mounts, in a mount
\* step, and only when that path did not exist.
C29_MountKeepsFiles ==
  [][/\ \A p \in DOMAIN fs : FileExists(fs', p) /\ fs'[p] = fs[p]
     /\ FileExists(fs, get_old_save_path(name)) =>
          /\ FileExists(fs', get_old_save_path(name))
          /\ fs'[get_old_save_path(name)] = fs[get_old_save_path(name)]
     /\ \A p \in (DOMAIN fs') \ (DOMAIN fs) :
          /\ pc \in MountSteps
          /\ mounted_save_files' = mounted_save_files + 1
          /\ p = MountedPath
          /\ p # get_old_save_path(name)]_vars

\* ROM "a" was loaded with a 32k SRAM and the controller paks where the SRAM
\* file and the first pak file were the user's: they are mounted as they
\* were, next to the three pak files the load created.
C29_Witness ==
  /\ pc = "finish"
  /\ name = <<"games", "a", "z64">>
  /\ mounted_save_files = 5
  /\ do_reset
  /\ FileExists(fs, <<"a", 0, ".sra">>) /\ fs[<<"a", 0, ".sra">>] = UserFile(32768)
  /\ FileExists(fs, <<"a", 1, ".cpk">>) /\ fs[<<"a", 1, ".cpk">>] = UserFile(32768)
  /\ FileExists(fs, <<"a", 2, ".cpk">>)
  /\ sd_image[0].opened /\ sd_image[1].opened
  /\ fs[<<"a", 0, ".sav">>] = UserFile(33280)

\* The slot of the first pak region: after the save-type region, if any.
FirstPakSlot == IF get_cart_save_type(status') = MT_NONE THEN 0 ELSE 1

FirstPakMountedAs(type) ==
  /\ mounted_save_files' > FirstPakSlot
  /\ save_files'[FirstPakSlot].type = type

\* A detection step of this load wrote the pak options.
DetectionSetPaks ==
  \E k \in 1..Len(ran) : {CPAK_OPT, TPAK_OPT} \subseteq ran[k].wrote

\* C30: at the end of a load with auto-detect on whose detection set the pak
\* options, a first pak slot mounted as a transfer pak goes with a first
\* controller in pad-with-transfer-pak or SNAC mode, and one mounted as a
\* controller pak with a first controller that is not in
\* pad-with-transfer-pak mode.
C30_FirstPakMatchesPad ==
  [][(pc = "finish" /\ is_auto(status) /\ DetectionSetPaks) =>
       /\ FirstPakMountedAs(MT_TPAK) =>
            user_io_status_get(status', CONTROLLER_OPTS[1]) \in {N64_PAD_WITH_TPAK, SNAC}
       /\ FirstPakMountedAs(MT_CPAK) =>
            user_io_status_get(status', CONTROLLER_OPTS[1]) # N64_PAD_WITH_TPAK]_vars

====
